---- MODULE Spec2Model ----
(***************************************************************************)
(* A model of the HubPoolClient ledger (src/src/clients/                   *)
(* AcrossHubPoolClient.ts): the event lists and derived indices that       *)
(* update() builds from the HubPool's event log, and the synchronous       *)
(* queries that read them.                                                 *)
(*                                                                         *)
(* The chain is the environment: a growing sequence of mined blocks, each  *)
(* with the events it emitted.  update() is an async method; its three     *)
(* continuations (after getBlockNumber, after the event queries, after the *)
(* token-info reads) are three actions.  A query is synchronous: it runs   *)
(* to completion in one action and leaves its arguments and result in      *)
(* `call` until it returns.                                                *)
(***************************************************************************)
EXTENDS Integers, Sequences, FiniteSets, TLC

\* ---------------------------------------------------------------- bounds
\* Highest block the chain mines.
MaxBlock == 4
\* Most events the chain emits in total.
MaxEvents == 5
\* Most events of one block.
MaxEventsPerBlock == 3
\* Largest poolRebalanceLeafCount of a proposal.
MaxLeafCount == 2
\* Largest |n| passed to getNthFullyExecutedRootBundle.
MaxSteps == 2
\* Most events of one block where the chain emits leaves of several chains
\* and tokens, routes, or proposals with evaluation blocks.
MaxLeavesPerBlock == 2
\* Most routes, or spoke pools and tokens, the chain sets in total.
MaxSettings == 3
\* update() is called while the client holds fewer spoke pool bindings
\* than this (an update that throws stores its bindings again when it is
\* repeated).
MaxBindings == 3
\* An update is started only while the client holds fewer executed leaves
\* than this (an update that throws after the lists are pushed stores the
\* leaves of its window again when it is repeated).
MaxStoredLeaves == 6
\* Most events the chain emits in total where it emits proposals, leaves,
\* spoke pools and tokens together.
MaxLedgerEvents == 3
\* Highest block of the spoke pool's chain.
MaxSearchBlock == 4
\* Most deposits the spoke pool has counted.
MaxDeposits == 3
\* Largest maxSearches passed to getBlockRangeForDepositId.
MaxSearches == 5
\* Most flow records the two spokes of a fee calculator hold together.
MaxFlows == 3
\* Most values set in the cache.
MaxWrites == 2
\* Largest startIndex of a flow range (endIndex goes one past the longest
\* list).
MaxStartIndex == 2

Blocks == 0..MaxBlock
\* Stands for Number.MAX_SAFE_INTEGER where it is the default of a block
\* argument: a block later than any block of the chain.
MAX_SAFE_INTEGER == MaxBlock + 1

Chains == {1, 2}

\* --------------------------------------------------------------- helpers
\* An optional value: undefined, or a value.
None == <<>>
Some(v) == <<v>>

Min(a, b) == IF a <= b THEN a ELSE b
Max(a, b) == IF a >= b THEN a ELSE b

Last(s) == s[Len(s)]

\* Every sequence over S of length at most n.
SeqsUpTo(S, n) == UNION {[1..k -> S] : k \in 0..n}

\* Array.prototype.findIndex / lodash findLastIndex, 1-based; 0 when no
\* element satisfies Test.
FindIndex(s, Test(_)) ==
    IF \E i \in 1..Len(s) : Test(s[i])
    THEN CHOOSE i \in 1..Len(s) : Test(s[i]) /\ \A j \in 1..(i - 1) : ~Test(s[j])
    ELSE 0

FindLastIndex(s, Test(_)) ==
    IF \E i \in 1..Len(s) : Test(s[i])
    THEN CHOOSE i \in 1..Len(s) : Test(s[i]) /\ \A j \in (i + 1)..Len(s) : ~Test(s[j])
    ELSE 0

\* Array.prototype.find / lodash findLast: the element, or undefined.
Find(s, Test(_)) ==
    LET i == FindIndex(s, Test) IN IF i = 0 THEN None ELSE Some(s[i])

FindLast(s, Test(_)) ==
    LET i == FindLastIndex(s, Test) IN IF i = 0 THEN None ELSE Some(s[i])

\* Array.prototype.indexOf, 0-based as in the source; -1 when absent.
IndexOf(s, v) == FindIndex(s, LAMBDA x : x = v) - 1

RemoveAt(s, i) == SubSeq(s, 1, i - 1) \o SubSeq(s, i + 1, Len(s))

\* An address string.  Two strings of the same account differ in letter
\* case: events carry the checksummed form, callers may pass either.
Addr(id, cs) == [id |-> id, cs |-> cs]
Checksum(id) == Addr(id, "checksum")
Lower(id) == Addr(id, "lower")

\* String.prototype.toLowerCase on an address string.
toLowerCase(a) == [a EXCEPT !.cs = "lower"]

\* An ethers BigNumber: `low`, or 2^53 + `low` when `over53` (a value
\* Number cannot hold).
BN(low) == [low |-> low, over53 |-> FALSE]
BNOver53(low) == [low |-> low, over53 |-> TRUE]

\* BigNumber.prototype.toNumber: the number, or an overflow fault.
toNumberThrows(bn) == bn.over53
toNumber(bn) == bn.low

\* The order of SortableEvent: blockNumber, then transactionIndex, then
\* logIndex.
EventBefore(a, b) ==
    \/ a.blockNumber < b.blockNumber
    \/ /\ a.blockNumber = b.blockNumber
       /\ a.transactionIndex < b.transactionIndex
    \/ /\ a.blockNumber = b.blockNumber
       /\ a.transactionIndex = b.transactionIndex
       /\ a.logIndex < b.logIndex

\* sortEventsDescending: a sorted copy, latest event first; events that
\* compare equal keep their order.
RECURSIVE sortEventsDescending(_)
sortEventsDescending(events) ==
    IF events = <<>> THEN <<>>
    ELSE LET i == FindIndex(events,
                    LAMBDA e : \A j \in 1..Len(events) : ~EventBefore(e, events[j]))
         IN <<events[i]>> \o sortEventsDescending(RemoveAt(events, i))

\* ----------------------------------------------------------------- state
VARIABLES
    \* the chain
    head,                 \* number of the latest mined block
    log,                  \* every event emitted so far, in chain order
    \* HubPoolClient
    config,               \* eventSearchConfig and HubPoolClientConfig
    l1TokensToDestinationTokens,
    l1TokensToDestinationTokensWithBlock,
    l1Tokens,
    lpTokens,
    proposedRootBundles,
    canceledRootBundles,
    disputedRootBundles,
    executedRootBundles,
    crossChainContracts,
    pendingRootBundle,
    isUpdated,
    firstBlockToSearch,
    latestBlockNumber,
    \* update() in flight
    pc,                   \* "idle", "querying" or "tokenInfo"
    fetched,              \* what the event queries of this update returned
    \* the query being answered
    call,
    \* getBlockRangeForDepositId: its arguments, locals and result
    search,
    \* UBAFeeCalculator: its two spokes, its config, the call it answers
    calc,
    \* the cache: what the store holds, and the call it answers
    cache

chainVars == <<head, log>>
ledgerVars == <<l1TokensToDestinationTokens, l1TokensToDestinationTokensWithBlock,
                l1Tokens, lpTokens, proposedRootBundles, canceledRootBundles,
                disputedRootBundles, executedRootBundles, crossChainContracts,
                pendingRootBundle, isUpdated, firstBlockToSearch, latestBlockNumber>>
updateVars == <<pc, fetched>>
vars == <<chainVars, config, ledgerVars, updateVars, call, search, calc, cache>>

NoCall == [op |-> "none", args |-> <<>>, ret |-> [tag |-> "none", val |-> <<>>]]
NoFetch == [events |-> <<>>, unclaimedPoolRebalanceLeafCount |-> 0]

\* What a query hands back: a value, or a thrown Error.
Ok(v) == [tag |-> "ok", val |-> v]
Err(msg) == [tag |-> "error", val |-> msg]

\* The constructor's defaults: eventSearchConfig {fromBlock: 0} without
\* toBlock, nothing ignored.
DefaultConfig ==
    [fromBlock |-> 0, toBlock |-> None,
     ignoredHubExecutedBundles |-> {}, ignoredHubProposedBundles |-> {}]

InitClient(cfg) ==
    /\ config = cfg
    /\ l1TokensToDestinationTokens = <<>>
    /\ l1TokensToDestinationTokensWithBlock = <<>>
    /\ l1Tokens = <<>>
    /\ lpTokens = {}
    /\ proposedRootBundles = <<>>
    /\ canceledRootBundles = <<>>
    /\ disputedRootBundles = <<>>
    /\ executedRootBundles = <<>>
    /\ crossChainContracts = [c \in Chains |-> <<>>]
    /\ pendingRootBundle = None
    /\ isUpdated = FALSE
    /\ firstBlockToSearch = cfg.fromBlock
    /\ latestBlockNumber = None
    /\ pc = "idle"
    /\ fetched = NoFetch
    /\ call = NoCall

\* No call of getBlockRangeForDepositId.
NoSearch == [pc |-> "none"]

\* No UBAFeeCalculator constructed.
NoCalculator == [pc |-> "none"]

\* No cache client constructed.
NoCache == [pc |-> "none"]

Init ==
    /\ head = 0
    /\ log = <<>>
    /\ InitClient(DefaultConfig)
    /\ search = NoSearch
    /\ calc = NoCalculator
    /\ cache = NoCache

\* ------------------------------------------------------------- the chain
\* An event as the chain emits it: the n-th event (from 0) of its block
\* is log n of the block, and two consecutive logs share a transaction.
Stamp(tpl, block, n) ==
    [kind |-> tpl.kind, blockNumber |-> block, transactionIndex |-> n \div 2,
     logIndex |-> n, args |-> tpl.args]

ProposeRootBundle(leafCount, evaluationBlockNumbers) ==
    [kind |-> "ProposeRootBundle",
     args |-> [poolRebalanceLeafCount |-> leafCount,
               bundleEvaluationBlockNumbers |-> evaluationBlockNumbers]]

RootBundleExecuted(chainId, tokens, balances) ==
    [kind |-> "RootBundleExecuted",
     args |-> [chainId |-> chainId, l1Tokens |-> tokens, runningBalances |-> balances]]

RootBundleCanceled == [kind |-> "RootBundleCanceled", args |-> <<>>]
RootBundleDisputed == [kind |-> "RootBundleDisputed", args |-> <<>>]

SetPoolRebalanceRoute(l1Token, destinationChainId, destinationToken) ==
    [kind |-> "SetPoolRebalanceRoute",
     args |-> [l1Token |-> l1Token, destinationChainId |-> destinationChainId,
               destinationToken |-> destinationToken]]

CrossChainContractsSet(l2ChainId, spokePool) ==
    [kind |-> "CrossChainContractsSet",
     args |-> [l2ChainId |-> l2ChainId, spokePool |-> spokePool]]

L1TokenEnabledForLiquidityProvision(l1Token) ==
    [kind |-> "L1TokenEnabledForLiquidityProvision", args |-> [l1Token |-> l1Token]]

\* HubPool.rootBundleProposal() after the events `events`: a proposal sets
\* the unclaimed leaf count to its leaf count and opens the challenge
\* period, an executed leaf claims one leaf, a dispute or a cancellation
\* deletes the proposal.  The chain's clock is its block number, and the
\* challenge period ends with the block of the proposal.
NoProposal == [unclaimedPoolRebalanceLeafCount |-> 0, challengePeriodEndTimestamp |-> 0]

RECURSIVE rootBundleProposal(_)
rootBundleProposal(events) ==
    IF events = <<>> THEN NoProposal
    ELSE LET before == rootBundleProposal(SubSeq(events, 1, Len(events) - 1))
             e == Last(events)
         IN CASE e.kind = "ProposeRootBundle" ->
                     [unclaimedPoolRebalanceLeafCount |-> e.args.poolRebalanceLeafCount,
                      challengePeriodEndTimestamp |-> e.blockNumber]
              [] e.kind = "RootBundleExecuted" ->
                     [before EXCEPT !.unclaimedPoolRebalanceLeafCount = Max(0, @ - 1)]
              [] e.kind \in {"RootBundleCanceled", "RootBundleDisputed"} -> NoProposal
              [] OTHER -> before

\* What the HubPool lets happen in block `block` after `events`: a proposal
\* only when no leaf is unclaimed, a dispute only of a proposal in its
\* challenge period, a leaf execution only of an unclaimed leaf after the
\* challenge period (so never in the block of its proposal).
Permitted(tpl, events, block) ==
    LET proposal == rootBundleProposal(events)
    IN CASE tpl.kind = "ProposeRootBundle" ->
                proposal.unclaimedPoolRebalanceLeafCount = 0
         [] tpl.kind \in {"RootBundleCanceled", "RootBundleDisputed"} ->
                /\ proposal.unclaimedPoolRebalanceLeafCount > 0
                /\ block <= proposal.challengePeriodEndTimestamp
         [] tpl.kind = "RootBundleExecuted" ->
                /\ proposal.unclaimedPoolRebalanceLeafCount > 0
                /\ block > proposal.challengePeriodEndTimestamp
         [] OTHER -> TRUE

\* The chain mines the next block, with the events `evs` in it.
Mine(evs) ==
    /\ call = NoCall
    /\ head < MaxBlock
    /\ Len(log) + Len(evs) <= MaxEvents
    /\ LET block == [i \in 1..Len(evs) |-> Stamp(evs[i], head + 1, i - 1)]
       IN /\ \A i \in 1..Len(evs) :
                 Permitted(evs[i], log \o SubSeq(block, 1, i - 1), head + 1)
          /\ log' = log \o block
    /\ head' = head + 1
    /\ UNCHANGED <<config, search, calc, cache, ledgerVars, updateVars, call>>

\* ERC20 symbol() and decimals() of the token contracts of the chain.
TokenSymbol(id) ==
    CASE id = 1 -> "WETH" [] id = 2 -> "USDC" [] id = 3 -> "WETH" [] id = 9 -> "WETH"
      [] OTHER -> "BIG"
TokenDecimals(id) ==
    CASE id = 1 -> 18 [] id = 2 -> 6 [] id = 3 -> 8 [] OTHER -> 19

fetchTokenInfoFromContract(address) ==
    [address |-> address, symbol |-> TokenSymbol(address.id),
     decimals |-> TokenDecimals(address.id)]

\* ---------------------------------------------------------------- update
\* searchConfig.toBlock: eventSearchConfig.toBlock || latestBlockNumber.
SearchToBlock(latest) ==
    IF config.toBlock # None /\ config.toBlock[1] # 0 THEN config.toBlock[1] ELSE latest

\* paginatedEventQuery: the events of one kind that `events` holds in the
\* block window [fromBlock, toBlock], in chain order.
paginatedEventQuery(events, kind, fromBlock, toBlock) ==
    SelectSeq(events, LAMBDA e : /\ e.kind = kind
                                 /\ e.blockNumber >= fromBlock
                                 /\ e.blockNumber <= toBlock)

\* The events that `events` holds in the block window [fromBlock, toBlock].
InWindow(events, fromBlock, toBlock) ==
    SelectSeq(events, LAMBDA e : e.blockNumber >= fromBlock /\ e.blockNumber <= toBlock)

\* spreadEventWithBlockNumber: the event's arguments and its position.
Position(e) ==
    [blockNumber |-> e.blockNumber, transactionIndex |-> e.transactionIndex,
     logIndex |-> e.logIndex]

\* assign(obj, [key], [item]): append item to the array under key.
assignCrossChainContract(contracts, e) ==
    [contracts EXCEPT ![e.args.l2ChainId] =
        Append(@, [spokePool |-> e.args.spokePool, blockNumber |-> e.blockNumber,
                   transactionIndex |-> e.transactionIndex, logIndex |-> e.logIndex])]

KeyIndex(map, l1Token) == FindIndex(map, LAMBDA entry : entry.l1Token = l1Token)

\* assign(obj, [l1Token, chain], token): set the value under the key path.
assignDestinationToken(map, e) ==
    LET i == KeyIndex(map, e.args.l1Token)
        c == e.args.destinationChainId
        v == Some(e.args.destinationToken)
    IN IF i = 0
       THEN Append(map, [l1Token |-> e.args.l1Token,
                         chains |-> [d \in Chains |-> IF d = c THEN v ELSE None]])
       ELSE [map EXCEPT ![i].chains[c] = v]

\* assign(obj, [l1Token, chain], [item]): append item to the array under
\* the key path.  An empty array stands for an absent key.
assignDestinationTokenWithBlock(map, e) ==
    LET i == KeyIndex(map, e.args.l1Token)
        c == e.args.destinationChainId
        item == [l2Token |-> e.args.destinationToken, blockNumber |-> e.blockNumber,
                 transactionIndex |-> e.transactionIndex, logIndex |-> e.logIndex]
    IN IF i = 0
       THEN Append(map, [l1Token |-> e.args.l1Token,
                         chains |-> [d \in Chains |-> IF d = c THEN <<item>> ELSE <<>>]])
       ELSE [map EXCEPT ![i].chains[c] = Append(@, item)]

RECURSIVE FoldLeft(_, _, _)
FoldLeft(Op(_, _), acc, s) ==
    IF s = <<>> THEN acc ELSE FoldLeft(Op, Op(acc, Head(s)), Tail(s))

\* [...new Set(array)]: the first occurrence of every element, in order.
Unique(s) ==
    FoldLeft(LAMBDA acc, x : IF \E i \in 1..Len(acc) : acc[i] = x THEN acc
                             ELSE Append(acc, x),
             <<>>, s)

Map(s, F(_)) == [i \in 1..Len(s) |-> F(s[i])]

\* The loop over tokenInfo without the lookup of the symbol in l1Tokens.
RECURSIVE pushTokenInfo_NoSymbolCheck(_, _)
pushTokenInfo_NoSymbolCheck(tokens, infos) ==
    IF infos = <<>> THEN [l1Tokens |-> tokens, thrown |-> FALSE]
    ELSE LET info == Head(infos)
         IN IF info.decimals > 0 /\ info.decimals <= 18
            THEN pushTokenInfo_NoSymbolCheck(Append(tokens, info), Tail(infos))
            ELSE [l1Tokens |-> tokens, thrown |-> TRUE]

\* The loop over tokenInfo: the l1Tokens it leaves, and whether it threw.
RECURSIVE pushTokenInfo(_, _)
pushTokenInfo(tokens, infos) ==
    IF infos = <<>> THEN [l1Tokens |-> tokens, thrown |-> FALSE]
    ELSE LET info == Head(infos)
         IN IF \E i \in 1..Len(tokens) : tokens[i].symbol = info.symbol
            THEN pushTokenInfo(tokens, Tail(infos))
            ELSE IF info.decimals > 0 /\ info.decimals <= 18
                 THEN pushTokenInfo(Append(tokens, info), Tail(infos))
                 ELSE [l1Tokens |-> tokens, thrown |-> TRUE]

ProposedRootBundle(e) ==
    [blockNumber |-> e.blockNumber, transactionIndex |-> e.transactionIndex,
     logIndex |-> e.logIndex,
     poolRebalanceLeafCount |-> e.args.poolRebalanceLeafCount,
     bundleEvaluationBlockNumbers |-> e.args.bundleEvaluationBlockNumbers,
     transactionHash |-> <<e.blockNumber, e.transactionIndex>>]

ExecutedRootBundle(e) ==
    [blockNumber |-> e.blockNumber, transactionIndex |-> e.transactionIndex,
     logIndex |-> e.logIndex, chainId |-> e.args.chainId,
     l1Tokens |-> e.args.l1Tokens, runningBalances |-> e.args.runningBalances]

\* proposedRootBundles.push that puts the new bundles in front of the list.
pushProposedRootBundles_Unshift(bundles, proposeRootBundleEvents) ==
    Map(SelectSeq(proposeRootBundleEvents,
                  LAMBDA e : e.blockNumber \notin config.ignoredHubProposedBundles),
        ProposedRootBundle) \o bundles

\* this.proposedRootBundles.push(...): the events that are not ignored, in
\* the order of the query, behind the bundles the list holds.
pushProposedRootBundles(bundles, proposeRootBundleEvents) ==
    bundles \o
    Map(SelectSeq(proposeRootBundleEvents,
                  LAMBDA e : e.blockNumber \notin config.ignoredHubProposedBundles),
        ProposedRootBundle)

\* The pending bundle taken from the oldest stored proposal, not the most
\* recent one.
PendingRootBundle_Oldest(unclaimedPoolRebalanceLeafCount, bundles) ==
    LET mostRecentProposedRootBundle == Head(bundles)
    IN [unclaimedPoolRebalanceLeafCount |-> unclaimedPoolRebalanceLeafCount,
        bundleEvaluationBlockNumbers |->
            Map(mostRecentProposedRootBundle.bundleEvaluationBlockNumbers,
                LAMBDA block : IF toNumberThrows(block) THEN 0 ELSE toNumber(block)),
        proposalBlockNumber |-> mostRecentProposedRootBundle.blockNumber]

\* this.pendingRootBundle of a pending proposal: the count read from the
\* chain, and the block and the evaluation block numbers of the most recent
\* stored proposal, a number that toNumber() cannot handle turned into 0.
PendingRootBundle(unclaimedPoolRebalanceLeafCount, bundles) ==
    LET mostRecentProposedRootBundle == Last(bundles)
    IN [unclaimedPoolRebalanceLeafCount |-> unclaimedPoolRebalanceLeafCount,
        bundleEvaluationBlockNumbers |->
            Map(mostRecentProposedRootBundle.bundleEvaluationBlockNumbers,
                LAMBDA block : IF toNumberThrows(block) THEN 0 ELSE toNumber(block)),
        proposalBlockNumber |-> mostRecentProposedRootBundle.blockNumber]

\* update(), resumed after getBlockNumber().
RECURSIVE SumOver(_, _)
SumOver(S, count) ==
    IF S = {} THEN 0
    ELSE LET x == CHOOSE x \in S : TRUE IN count[x] + SumOver(S \ {x}, count)

\* The spoke pool bindings the client holds.
StoredBindings == SumOver(Chains, [chain \in Chains |-> Len(crossChainContracts[chain])])

\* update() without the return on an empty search window.
UpdateStart_NoEarlyReturn ==
    /\ call = NoCall
    /\ pc = "idle"
    /\ StoredBindings < MaxBindings
    /\ Len(executedRootBundles) < MaxStoredLeaves
    /\ latestBlockNumber' = Some(head)
    /\ pc' = "querying"
    /\ UNCHANGED <<chainVars, config, search, calc, cache, l1TokensToDestinationTokens,
                   l1TokensToDestinationTokensWithBlock, l1Tokens, lpTokens,
                   proposedRootBundles, canceledRootBundles, disputedRootBundles,
                   executedRootBundles, crossChainContracts, pendingRootBundle,
                   isUpdated, firstBlockToSearch, fetched, call>>

\* update(), from its call to the await of the event queries, or to its
\* return when the search window is empty.
UpdateStart ==
    /\ call = NoCall
    /\ pc = "idle"
    /\ StoredBindings < MaxBindings
    /\ Len(executedRootBundles) < MaxStoredLeaves
    /\ latestBlockNumber' = Some(head)
    /\ pc' = IF firstBlockToSearch > SearchToBlock(head) THEN "idle" ELSE "querying"
    /\ UNCHANGED <<chainVars, config, search, calc, cache, l1TokensToDestinationTokens,
                   l1TokensToDestinationTokensWithBlock, l1Tokens, lpTokens,
                   proposedRootBundles, canceledRootBundles, disputedRootBundles,
                   executedRootBundles, crossChainContracts, pendingRootBundle,
                   isUpdated, firstBlockToSearch, fetched, call>>

\* update(), resumed after the event queries and rootBundleProposal(): the
\* cross-chain contracts and the routes are applied.  (currentTime, which
\* no query of the ledger reads, is left out of the state.)
UpdateQueried ==
    /\ call = NoCall
    /\ pc = "querying"
    /\ LET toBlock == SearchToBlock(latestBlockNumber[1])
           crossChainContractsSetEvents ==
               paginatedEventQuery(log, "CrossChainContractsSet", firstBlockToSearch, toBlock)
           poolRebalanceRouteEvents ==
               paginatedEventQuery(log, "SetPoolRebalanceRoute", firstBlockToSearch, toBlock)
       IN /\ crossChainContracts' =
                 FoldLeft(assignCrossChainContract, crossChainContracts,
                          crossChainContractsSetEvents)
          /\ l1TokensToDestinationTokens' =
                 FoldLeft(assignDestinationToken, l1TokensToDestinationTokens,
                          poolRebalanceRouteEvents)
          /\ l1TokensToDestinationTokensWithBlock' =
                 FoldLeft(assignDestinationTokenWithBlock,
                          l1TokensToDestinationTokensWithBlock, poolRebalanceRouteEvents)
    /\ fetched' = [events |-> InWindow(log, firstBlockToSearch,
                                        SearchToBlock(latestBlockNumber[1])),
                   unclaimedPoolRebalanceLeafCount |->
                       rootBundleProposal(log).unclaimedPoolRebalanceLeafCount]
    /\ pc' = "tokenInfo"
    /\ UNCHANGED <<chainVars, config, search, calc, cache, l1Tokens, lpTokens, proposedRootBundles,
                   canceledRootBundles, disputedRootBundles, executedRootBundles,
                   pendingRootBundle, isUpdated, firstBlockToSearch, latestBlockNumber,
                   call>>

\* update(), resumed after the token-info reads, to its end or its throw.
UpdateTokenInfo ==
    /\ call = NoCall
    /\ pc = "tokenInfo"
    /\ LET toBlock == SearchToBlock(latestBlockNumber[1])
           Query(kind) == paginatedEventQuery(fetched.events, kind, firstBlockToSearch, toBlock)
           uniqueL1Tokens ==
               Unique(Map(Query("L1TokenEnabledForLiquidityProvision"),
                          LAMBDA e : e.args.l1Token))
           pushed == pushTokenInfo(l1Tokens, Map(uniqueL1Tokens, fetchTokenInfoFromContract))
           proposed == pushProposedRootBundles(proposedRootBundles,
                                               Query("ProposeRootBundle"))
           executed ==
               executedRootBundles \o
               Map(SelectSeq(Query("RootBundleExecuted"),
                             LAMBDA e : e.blockNumber \notin config.ignoredHubExecutedBundles),
                   ExecutedRootBundle)
           pending == fetched.unclaimedPoolRebalanceLeafCount > 0
           \* mostRecentProposedRootBundle is undefined: a TypeError
           pendingThrows == pending /\ proposed = <<>>
       IN /\ l1Tokens' = pushed.l1Tokens
          /\ IF pushed.thrown
             THEN UNCHANGED <<lpTokens, proposedRootBundles, canceledRootBundles,
                              disputedRootBundles, executedRootBundles,
                              pendingRootBundle, isUpdated, firstBlockToSearch>>
             ELSE /\ lpTokens' = lpTokens \cup {uniqueL1Tokens[i] : i \in 1..Len(uniqueL1Tokens)}
                  /\ proposedRootBundles' = proposed
                  /\ canceledRootBundles' =
                         canceledRootBundles \o Map(Query("RootBundleCanceled"), Position)
                  /\ disputedRootBundles' =
                         disputedRootBundles \o Map(Query("RootBundleDisputed"), Position)
                  /\ executedRootBundles' = executed
                  /\ IF pendingThrows
                     THEN UNCHANGED <<pendingRootBundle, isUpdated, firstBlockToSearch>>
                     ELSE /\ pendingRootBundle' =
                                IF pending
                                THEN Some(PendingRootBundle(
                                              fetched.unclaimedPoolRebalanceLeafCount,
                                              proposed))
                                ELSE None
                          /\ isUpdated' = TRUE
                          /\ firstBlockToSearch' = toBlock + 1
    /\ pc' = "idle"
    /\ fetched' = NoFetch
    /\ UNCHANGED <<chainVars, config, search, calc, cache, l1TokensToDestinationTokens,
                   l1TokensToDestinationTokensWithBlock, crossChainContracts,
                   latestBlockNumber, call>>

\* A query has handed back its result.
Return ==
    /\ call # NoCall
    /\ call' = NoCall
    /\ UNCHANGED <<chainVars, config, search, calc, cache, ledgerVars, updateVars>>

\* --------------------------------------------------- queries on bundles
Range(s) == {s[i] : i \in 1..Len(s)}

\* getFollowingRootBundle that takes the first bundle of the block, not the
\* last.
getFollowingRootBundle_FirstOfBlock(currentRootBundle) ==
    LET index == FindIndex(proposedRootBundles,
                     LAMBDA bundle : bundle.blockNumber = currentRootBundle.blockNumber)
    IN IF index = 0 \/ index = Len(proposedRootBundles)
       THEN None
       ELSE Some(proposedRootBundles[index + 1])

getFollowingRootBundle(currentRootBundle) ==
    LET index == FindLastIndex(proposedRootBundles,
                     LAMBDA bundle : bundle.blockNumber = currentRootBundle.blockNumber)
    IN IF index = 0 \/ index = Len(proposedRootBundles)
       THEN None
       ELSE Some(proposedRootBundles[index + 1])

\* getExecutedLeavesForRootBundle with >= for >.
getExecutedLeavesForRootBundle_SameBlock(rootBundle, latestMainnetBlockToSearch) ==
    SelectSeq(executedRootBundles,
              LAMBDA executedLeaf :
                  /\ executedLeaf.blockNumber <= latestMainnetBlockToSearch
                  /\ executedLeaf.blockNumber >= rootBundle.blockNumber)

getExecutedLeavesForRootBundle(rootBundle, latestMainnetBlockToSearch) ==
    SelectSeq(executedRootBundles,
              LAMBDA executedLeaf :
                  /\ executedLeaf.blockNumber <= latestMainnetBlockToSearch
                  /\ executedLeaf.blockNumber > rootBundle.blockNumber)

\* The executed leaves that isRootBundleValid counts for rootBundle: those
\* up to the following proposal or latestMainnetBlock, whichever is first.
executedLeafCount(rootBundle, latestMainnetBlock) ==
    LET nextRootBundle == getFollowingRootBundle(rootBundle)
    IN getExecutedLeavesForRootBundle(
           rootBundle,
           IF nextRootBundle # None
           THEN Min(nextRootBundle[1].blockNumber, latestMainnetBlock)
           ELSE latestMainnetBlock)

isRootBundleValid(rootBundle, latestMainnetBlock) ==
    Len(executedLeafCount(rootBundle, latestMainnetBlock))
        = rootBundle.poolRebalanceLeafCount

getLatestFullyExecutedRootBundle(latestMainnetBlock) ==
    FindLast(proposedRootBundles,
             LAMBDA rootBundle :
                 IF rootBundle.blockNumber > latestMainnetBlock THEN FALSE
                 ELSE isRootBundleValid(rootBundle, latestMainnetBlock))

getEarliestFullyExecutedRootBundle(latestMainnetBlock, startBlock) ==
    Find(proposedRootBundles,
         LAMBDA rootBundle :
             IF rootBundle.blockNumber > latestMainnetBlock THEN FALSE
             ELSE IF rootBundle.blockNumber < startBlock THEN FALSE
             ELSE isRootBundleValid(rootBundle, latestMainnetBlock))

\* walkBackward that does not subtract 1 from the block of its match.
RECURSIVE walkBackward_NoDecrement(_, _)
walkBackward_NoDecrement(steps, nextLatestMainnetBlock) ==
    IF steps = 0 THEN <<>>
    ELSE LET bundleToReturn == getLatestFullyExecutedRootBundle(nextLatestMainnetBlock)
             bundleBlockNumber ==
                 IF bundleToReturn # None THEN bundleToReturn[1].blockNumber ELSE 0
         IN <<[searched |-> nextLatestMainnetBlock, bundleToReturn |-> bundleToReturn]>>
            \o walkBackward_NoDecrement(steps - 1, Max(0, bundleBlockNumber))

\* The iterations of the loop for n < 0: what each searched up to, and
\* what it found.
RECURSIVE walkBackward(_, _)
walkBackward(steps, nextLatestMainnetBlock) ==
    IF steps = 0 THEN <<>>
    ELSE LET bundleToReturn == getLatestFullyExecutedRootBundle(nextLatestMainnetBlock)
             bundleBlockNumber ==
                 IF bundleToReturn # None THEN bundleToReturn[1].blockNumber ELSE 0
         IN <<[searched |-> nextLatestMainnetBlock, bundleToReturn |-> bundleToReturn]>>
            \o walkBackward(steps - 1, Max(0, bundleBlockNumber - 1))

\* The iterations of the loop for n > 0: what each searched from, and what
\* it found.
RECURSIVE walkForward(_, _)
walkForward(steps, nextStartBlock) ==
    IF steps = 0 THEN <<>>
    ELSE LET bundleToReturn ==
                 getEarliestFullyExecutedRootBundle(latestBlockNumber[1], nextStartBlock)
             bundleBlockNumber ==
                 IF bundleToReturn # None THEN bundleToReturn[1].blockNumber ELSE 0
         IN <<[searched |-> nextStartBlock, bundleToReturn |-> bundleToReturn]>>
            \o walkForward(steps - 1, Min(bundleBlockNumber + 1, latestBlockNumber[1]))

\* The loop iterations of getNthFullyExecutedRootBundle(n, startBlock),
\* n # 0, on an updated client.
nthSteps(n, startBlock) ==
    IF n < 0
    THEN walkBackward(0 - n, IF startBlock # None THEN startBlock[1]
                             ELSE latestBlockNumber[1])
    ELSE walkForward(n, IF startBlock # None THEN startBlock[1] ELSE 0)

\* getNthFullyExecutedRootBundle that answers undefined for n = 0.
getNthFullyExecutedRootBundle_ZeroIsNone(n, startBlock) ==
    IF n = 0 THEN Ok(None)
    ELSE IF latestBlockNumber = None \/ latestBlockNumber[1] = 0
         THEN Err("HubPoolClient::getNthFullyExecutedRootBundle client not updated")
         ELSE Ok(Last(nthSteps(n, startBlock)).bundleToReturn)

getNthFullyExecutedRootBundle(n, startBlock) ==
    IF n = 0 THEN Err("n cannot be 0")
    ELSE IF latestBlockNumber = None \/ latestBlockNumber[1] = 0
         THEN Err("HubPoolClient::getNthFullyExecutedRootBundle client not updated")
         ELSE Ok(Last(nthSteps(n, startBlock)).bundleToReturn)

\* The bundles a caller passes: those of the ledger, and bundles it made
\* up itself (for the first and the last block of the chain).
BundleArgs ==
    Range(proposedRootBundles)
    \cup {ProposedRootBundle(Stamp(ProposeRootBundle(1, <<>>), b, 0)) : b \in {1, MaxBlock}}

Answer(op, args, ret) ==
    /\ call = NoCall
    /\ call' = [op |-> op, args |-> args, ret |-> ret]
    /\ UNCHANGED <<chainVars, config, search, calc, cache, ledgerVars, updateVars>>

CallIsRootBundleValid ==
    \E rootBundle \in BundleArgs, latestMainnetBlock \in Blocks :
        Answer("isRootBundleValid", <<rootBundle, latestMainnetBlock>>,
               Ok(isRootBundleValid(rootBundle, latestMainnetBlock)))

CallGetFollowingRootBundle ==
    \E currentRootBundle \in BundleArgs :
        Answer("getFollowingRootBundle", <<currentRootBundle>>,
               Ok(getFollowingRootBundle(currentRootBundle)))

CallGetNthFullyExecutedRootBundle ==
    \E n \in (0 - MaxSteps)..MaxSteps, startBlock \in {None} \cup {Some(b) : b \in Blocks} :
        Answer("getNthFullyExecutedRootBundle", <<n, startBlock>>,
               getNthFullyExecutedRootBundle(n, startBlock))

\* ------------------------------------------- the ledger of root bundles
\* The chain emits proposals and executed leaves.
BundleEvents ==
    {ProposeRootBundle(c, <<>>) : c \in 1..MaxLeafCount}
    \cup {RootBundleExecuted(1, <<Checksum(1)>>, <<BN(0)>>), RootBundleDisputed}

MineBundles == \E evs \in SeqsUpTo(BundleEvents, MaxEventsPerBlock) : Mine(evs)

Next ==
    \/ MineBundles
    \/ UpdateStart
    \/ UpdateQueried
    \/ UpdateTokenInfo
    \/ CallIsRootBundleValid
    \/ CallGetFollowingRootBundle
    \/ CallGetNthFullyExecutedRootBundle
    \/ Return

Spec == Init /\ [][Next]_vars

\* ------------------------------------------------- claims on bundles
\* The positions of the ledger's proposals made in the block of `bundle`.
SameBlockAs(bundle) ==
    {i \in 1..Len(proposedRootBundles) :
        proposedRootBundles[i].blockNumber = bundle.blockNumber}

SetMax(S) == CHOOSE x \in S : \A y \in S : y <= x

\* The bundle stored right after the last ledger entry of bundle's block.
Following(bundle) ==
    IF SameBlockAs(bundle) = {} \/ SetMax(SameBlockAs(bundle)) = Len(proposedRootBundles)
    THEN None
    ELSE Some(proposedRootBundles[SetMax(SameBlockAs(bundle)) + 1])

\* The executed leaves (by position) attributed to `bundle` at `horizon`.
AttributedLeaves(bundle, horizon) ==
    LET upTo == IF Following(bundle) = None THEN horizon
                ELSE Min(Following(bundle)[1].blockNumber, horizon)
    IN {i \in 1..Len(executedRootBundles) :
           /\ bundle.blockNumber < executedRootBundles[i].blockNumber
           /\ executedRootBundles[i].blockNumber <= upTo}

ValidAt(bundle, horizon) ==
    Cardinality(AttributedLeaves(bundle, horizon)) = bundle.poolRebalanceLeafCount

\* C1: isRootBundleValid(bundle, horizon) is true iff the number of executed
\* leaves with bundle.blockNumber < blockNumber <= min(following.blockNumber,
\* horizon) (horizon alone without a following bundle) equals
\* bundle.poolRebalanceLeafCount.
C1_ValidIffLeafCountMet ==
    call.op = "isRootBundleValid" =>
        call.ret = Ok(ValidAt(call.args[1], call.args[2]))

\* A bundle of the ledger, followed by another proposal, found valid.
C1_Witness ==
    /\ call.op = "isRootBundleValid"
    /\ call.args[1] \in Range(proposedRootBundles)
    /\ call.args[1].poolRebalanceLeafCount = MaxLeafCount
    /\ Following(call.args[1]) # None
    /\ call.ret = Ok(TRUE)

\* C7: getFollowingRootBundle(bundle) is the bundle stored right after the
\* last ledger entry whose blockNumber is bundle.blockNumber; none when that
\* entry is the newest or no entry has that blockNumber.
C7_FollowingIsNextAfterLastOfBlock ==
    call.op = "getFollowingRootBundle" => call.ret = Ok(Following(call.args[1]))

\* Two proposals share the block of the argument and a later one follows.
C7_Witness ==
    /\ call.op = "getFollowingRootBundle"
    /\ Cardinality(SameBlockAs(call.args[1])) = 2
    /\ call.ret.val # None

\* C6: getNthFullyExecutedRootBundle(0, startBlock) throws in every state;
\* on a client never updated it throws for every n.
C6_ZeroAndNotUpdatedThrow ==
    call.op = "getNthFullyExecutedRootBundle" =>
        /\ call.args[1] = 0 => call.ret.tag = "error"
        /\ latestBlockNumber = None => call.ret.tag = "error"

\* n = 0 on an updated client that holds a valid bundle.
C6_Witness ==
    /\ call.op = "getNthFullyExecutedRootBundle"
    /\ call.args[1] = 0
    /\ isUpdated
    /\ \E b \in Range(proposedRootBundles) : ValidAt(b, latestBlockNumber[1])
    /\ call.ret.tag = "error"

\* The bundles matched by the loop of the call, one per iteration that
\* matched.
Matches(steps) ==
    SelectSeq(steps, LAMBDA step : step.bundleToReturn # None)

\* C5: for n < 0 every iteration after a match searches up to a block below
\* that of the match, so successive matches have strictly decreasing blocks
\* and no bundle is matched twice.
C5_BackwardHorizonDecreases ==
    (/\ call.op = "getNthFullyExecutedRootBundle"
     /\ call.args[1] < 0
     /\ call.ret.tag = "ok") =>
        LET steps == nthSteps(call.args[1], call.args[2])
            found == Matches(steps)
        IN /\ \A i \in 2..Len(steps) :
                  steps[i - 1].bundleToReturn # None =>
                      steps[i].searched < steps[i - 1].bundleToReturn[1].blockNumber
           /\ \A i \in 2..Len(found) :
                  found[i].bundleToReturn[1].blockNumber
                      < found[i - 1].bundleToReturn[1].blockNumber
           /\ \A i, j \in 1..Len(found) :
                  i # j => found[i].bundleToReturn # found[j].bundleToReturn

\* Two iterations, each with a match.
C5_Witness ==
    /\ call.op = "getNthFullyExecutedRootBundle"
    /\ call.args[1] = 0 - 2
    /\ call.ret.tag = "ok"
    /\ Len(Matches(nthSteps(call.args[1], call.args[2]))) = 2

\* The ledger's bundles at or after block `from` that are valid at
\* latestBlockNumber, in ledger order.
ValidBundlesFrom(from) ==
    SelectSeq(proposedRootBundles,
              LAMBDA b : b.blockNumber >= from /\ ValidAt(b, latestBlockNumber[1]))

\* C3: for n = -j without startBlock, with k >= j bundles valid at
\* latestBlockNumber, the call returns the j-th most recent of them.
C3_NthLatestOfValid ==
    (/\ call.op = "getNthFullyExecutedRootBundle"
     /\ call.args[1] < 0
     /\ call.args[2] = None
     /\ call.ret.tag = "ok") =>
        LET valid == ValidBundlesFrom(0)
            j == 0 - call.args[1]
        IN j <= Len(valid) => call.ret.val = Some(valid[Len(valid) - j + 1])

\* C4: for n > 0 the call returns the n-th, in ledger order, of the bundles
\* at or after startBlock (default 0) that are valid at latestBlockNumber,
\* none when there are fewer than n, and no bundle is matched by two
\* iterations.
C4_NthEarliestOfValid ==
    (/\ call.op = "getNthFullyExecutedRootBundle"
     /\ call.args[1] > 0
     /\ call.ret.tag = "ok") =>
        LET valid == ValidBundlesFrom(IF call.args[2] = None THEN 0 ELSE call.args[2][1])
            n == call.args[1]
            found == Matches(nthSteps(n, call.args[2]))
        IN /\ call.ret.val = IF n <= Len(valid) THEN Some(valid[n]) ELSE None
           /\ \A i, j \in 1..Len(found) :
                  i # j => found[i].bundleToReturn # found[j].bundleToReturn

\* ------------------------------------------------------ running balances
\* getRunningBalanceBeforeBlockForChain that searches the leaves in ledger
\* order, oldest first.
getRunningBalanceBeforeBlockForChain_Unsorted(block, chain, l1Token) ==
    LET mostRecentExecutedRootBundleEvent ==
            Find(executedRootBundles,
                 LAMBDA executedLeaf :
                     /\ executedLeaf.blockNumber <= block
                     /\ executedLeaf.chainId = chain
                     /\ IndexOf(Map(executedLeaf.l1Tokens, toLowerCase),
                                toLowerCase(l1Token)) # -1)
    IN IF mostRecentExecutedRootBundleEvent # None
       THEN LET leaf == mostRecentExecutedRootBundleEvent[1]
                indexOfL1Token == IndexOf(Map(leaf.l1Tokens, toLowerCase),
                                          toLowerCase(l1Token))
            IN IF Len(leaf.l1Tokens) # Len(leaf.runningBalances)
               THEN Err("runningBalances and L1 token of ExecutedRootBundle event are not same length")
               ELSE Ok(leaf.runningBalances[indexOfL1Token + 1])
       ELSE Ok(BN(0))

getRunningBalanceBeforeBlockForChain(block, chain, l1Token) ==
    LET mostRecentExecutedRootBundleEvent ==
            Find(sortEventsDescending(executedRootBundles),
                 LAMBDA executedLeaf :
                     /\ executedLeaf.blockNumber <= block
                     /\ executedLeaf.chainId = chain
                     /\ IndexOf(Map(executedLeaf.l1Tokens, toLowerCase),
                                toLowerCase(l1Token)) # -1)
    IN IF mostRecentExecutedRootBundleEvent # None
       THEN LET leaf == mostRecentExecutedRootBundleEvent[1]
                indexOfL1Token == IndexOf(Map(leaf.l1Tokens, toLowerCase),
                                          toLowerCase(l1Token))
            IN IF Len(leaf.l1Tokens) # Len(leaf.runningBalances)
               THEN Err("runningBalances and L1 token of ExecutedRootBundle event are not same length")
               ELSE Ok(leaf.runningBalances[indexOfL1Token + 1])
       ELSE Ok(BN(0))

\* The addresses a caller passes: as the events spell them, in lower case,
\* and one that no leaf holds.
TokenArgs == {Checksum(1), Lower(1), Checksum(2), Checksum(3)}

CallGetRunningBalanceBeforeBlockForChain ==
    \E block \in Blocks, chain \in Chains, l1Token \in TokenArgs :
        Answer("getRunningBalanceBeforeBlockForChain", <<block, chain, l1Token>>,
               getRunningBalanceBeforeBlockForChain(block, chain, l1Token))

\* The chain emits proposals and executed leaves of several chains and
\* tokens; the HubPool emits a leaf's l1Tokens and runningBalances as the
\* proposer built them, of equal length or not.
BalanceEvents ==
    {ProposeRootBundle(MaxLeafCount, <<>>),
     RootBundleExecuted(1, <<Checksum(1)>>, <<BN(1)>>),
     RootBundleExecuted(1, <<Checksum(2), Checksum(1)>>, <<BN(2), BN(3)>>),
     RootBundleExecuted(2, <<Checksum(1)>>, <<BN(4)>>),
     RootBundleExecuted(1, <<Checksum(1), Checksum(2)>>, <<BN(5)>>)}

MineBalances == \E evs \in SeqsUpTo(BalanceEvents, MaxLeavesPerBlock) : Mine(evs)

NextBalances ==
    \/ MineBalances
    \/ UpdateStart
    \/ UpdateQueried
    \/ UpdateTokenInfo
    \/ CallGetRunningBalanceBeforeBlockForChain
    \/ Return

SpecBalances == Init /\ [][NextBalances]_vars

\* The positions of the executed leaves at or before `block` of `chain`
\* that hold a token for which Same(held, l1Token).
LeavesHolding(block, chain, l1Token, Same(_, _)) ==
    {i \in 1..Len(executedRootBundles) :
        /\ executedRootBundles[i].blockNumber <= block
        /\ executedRootBundles[i].chainId = chain
        /\ \E k \in 1..Len(executedRootBundles[i].l1Tokens) :
               Same(executedRootBundles[i].l1Tokens[k], l1Token)}

\* The leaves among `found` that no other leaf of `found` comes after.
MostRecent(found) ==
    {i \in found : \A j \in found :
        ~EventBefore(executedRootBundles[i], executedRootBundles[j])}

SameSpelling(a, b) == a = b
SameIgnoringCase(a, b) == toLowerCase(a) = toLowerCase(b)

\* C2 as stated: the call returns runningBalances[indexOf(token)] of the
\* most recent executed leaf (by blockNumber, transactionIndex, logIndex)
\* with blockNumber <= B, chainId = chain and token in its l1Tokens, and 0
\* when there is no such leaf.
C2_BalanceOfMostRecentLeafHoldingToken ==
    call.op = "getRunningBalanceBeforeBlockForChain" =>
        LET found == LeavesHolding(call.args[1], call.args[2], call.args[3], SameSpelling)
        IN IF found = {}
           THEN call.ret = Ok(BN(0))
           ELSE \E i \in MostRecent(found) :
                    LET leaf == executedRootBundles[i]
                        k == IndexOf(leaf.l1Tokens, call.args[3]) + 1
                    IN /\ call.ret.tag = "ok"
                       /\ k <= Len(leaf.runningBalances)
                       /\ call.ret.val = leaf.runningBalances[k]

\* C2, amended: tokens are compared ignoring letter case, the index is that
\* of the first token of the leaf equal to the argument ignoring case, and
\* the call throws when the l1Tokens and the runningBalances of that leaf
\* differ in length; it returns 0 when no leaf matches.
C2_BalanceOfMostRecentLeafIgnoringCase ==
    call.op = "getRunningBalanceBeforeBlockForChain" =>
        LET found == LeavesHolding(call.args[1], call.args[2], call.args[3], SameIgnoringCase)
        IN IF found = {}
           THEN call.ret = Ok(BN(0))
           ELSE \E i \in MostRecent(found) :
                    LET leaf == executedRootBundles[i]
                        k == IndexOf(Map(leaf.l1Tokens, toLowerCase),
                                     toLowerCase(call.args[3])) + 1
                    IN IF Len(leaf.l1Tokens) # Len(leaf.runningBalances)
                       THEN call.ret.tag = "error"
                       ELSE call.ret = Ok(leaf.runningBalances[k])

\* Two leaves of one block hold the token, the later of them not in the
\* first place, and the balance of the later one is returned.
C2_Witness ==
    /\ call.op = "getRunningBalanceBeforeBlockForChain"
    /\ LET found == LeavesHolding(call.args[1], call.args[2], call.args[3], SameIgnoringCase)
       IN \E i \in MostRecent(found), j \in found :
              /\ i # j
              /\ executedRootBundles[i].blockNumber = executedRootBundles[j].blockNumber
              /\ executedRootBundles[i].l1Tokens[1] # Checksum(call.args[3].id)
              /\ call.ret.tag = "ok"
              /\ call.ret.val = executedRootBundles[i].runningBalances[2]
              /\ call.ret.val # executedRootBundles[j].runningBalances[1]

\* ----------------------------------------------------------- spoke pools
\* getSpokePoolForBlock that searches the bindings in stored order, oldest
\* first.
getSpokePoolForBlock_Unsorted(chain, block) ==
    IF crossChainContracts[chain] = <<>>
    THEN Err("No cross chain contracts set")
    ELSE LET mostRecentSpokePoolUpdateBeforeBlock ==
                 Find(crossChainContracts[chain],
                      LAMBDA crossChainContract : crossChainContract.blockNumber <= block)
         IN IF mostRecentSpokePoolUpdateBeforeBlock = None
            THEN Err("No cross chain contract found before block")
            ELSE Ok(mostRecentSpokePoolUpdateBeforeBlock[1].spokePool)

getSpokePoolForBlock(chain, block) ==
    IF crossChainContracts[chain] = <<>>
    THEN Err("No cross chain contracts set")
    ELSE LET mostRecentSpokePoolUpdateBeforeBlock ==
                 Find(sortEventsDescending(crossChainContracts[chain]),
                      LAMBDA crossChainContract : crossChainContract.blockNumber <= block)
         IN IF mostRecentSpokePoolUpdateBeforeBlock = None
            THEN Err("No cross chain contract found before block")
            ELSE Ok(mostRecentSpokePoolUpdateBeforeBlock[1].spokePool)

\* The block argument, or its default.
CallGetSpokePoolForBlock ==
    \E chain \in Chains, block \in Blocks \cup {MAX_SAFE_INTEGER} :
        Answer("getSpokePoolForBlock", <<chain, block>>, getSpokePoolForBlock(chain, block))

\* The chain registers spoke pools, and enables a token that the client
\* does not support, on which update() throws after it has stored the
\* spoke pools.
SpokePoolEvents ==
    {CrossChainContractsSet(1, Checksum(7)), CrossChainContractsSet(1, Checksum(8)),
     CrossChainContractsSet(2, Checksum(7)),
     L1TokenEnabledForLiquidityProvision(Checksum(4))}

MineSpokePools ==
    \E evs \in SeqsUpTo(SpokePoolEvents, MaxLeavesPerBlock) :
        Len(log) + Len(evs) <= MaxSettings /\ Mine(evs)

NextSpokePools ==
    \/ MineSpokePools
    \/ UpdateStart
    \/ UpdateQueried
    \/ UpdateTokenInfo
    \/ CallGetSpokePoolForBlock
    \/ Return

SpecSpokePools == Init /\ [][NextSpokePools]_vars

\* The positions of the bindings of `chain` at or before `block`.
BindingsAtOrBefore(chain, block) ==
    {i \in 1..Len(crossChainContracts[chain]) :
        crossChainContracts[chain][i].blockNumber <= block}

\* C9: getSpokePoolForBlock(chain, B) returns the spokePool of the
\* latest-ordered binding of chain with blockNumber <= B; it throws when
\* the chain has no binding at all, and when every binding of the chain is
\* after B; it hands back nothing else.
C9_SpokePoolOfLatestBindingOrError ==
    call.op = "getSpokePoolForBlock" =>
        LET chain == call.args[1]
            bindings == crossChainContracts[chain]
            found == BindingsAtOrBefore(chain, call.args[2])
        IN IF found = {}
           THEN call.ret.tag = "error"
           ELSE \E i \in found :
                    /\ \A j \in found : ~EventBefore(bindings[i], bindings[j])
                    /\ call.ret = Ok(bindings[i].spokePool)

\* Two bindings of one block with different spoke pools are at or before
\* B, a third one is after B, and the later of the two is returned.
C9_Witness ==
    /\ call.op = "getSpokePoolForBlock"
    /\ LET bindings == crossChainContracts[call.args[1]]
           found == BindingsAtOrBefore(call.args[1], call.args[2])
       IN /\ \E i, j \in found :
                 /\ bindings[i].blockNumber = bindings[j].blockNumber
                 /\ EventBefore(bindings[j], bindings[i])
                 /\ bindings[i].spokePool # bindings[j].spokePool
                 /\ \A k \in found : ~EventBefore(bindings[i], bindings[k])
                 /\ call.ret = Ok(bindings[i].spokePool)
          /\ \E k \in 1..Len(bindings) : bindings[k].blockNumber > call.args[2]

\* ---------------------------------------------------------- token routes
getL1TokenCounterpartAtBlock(l2ChainId, l2Token, block) ==
    LET l1Token ==
            Find(l1TokensToDestinationTokensWithBlock,
                 LAMBDA entry :
                     IF entry.chains[l2ChainId] = <<>>
                     THEN FALSE
                     ELSE Find(sortEventsDescending(entry.chains[l2ChainId]),
                               LAMBDA mapping : /\ mapping.l2Token = l2Token
                                                /\ mapping.blockNumber <= block) # None)
    IN IF l1Token = None
       THEN Err("Could not find L1 token mapping")
       ELSE Ok(l1Token[1].l1Token)

L2TokenArgs == {Checksum(5), Checksum(6)}

CallGetL1TokenCounterpartAtBlock ==
    \E l2ChainId \in Chains, l2Token \in L2TokenArgs, block \in Blocks :
        Answer("getL1TokenCounterpartAtBlock", <<l2ChainId, l2Token, block>>,
               getL1TokenCounterpartAtBlock(l2ChainId, l2Token, block))

\* The chain sets and resets the routes of two tokens.
RouteEvents ==
    {SetPoolRebalanceRoute(Checksum(1), 1, Checksum(5)),
     SetPoolRebalanceRoute(Checksum(1), 1, Checksum(6)),
     SetPoolRebalanceRoute(Checksum(2), 1, Checksum(5)),
     SetPoolRebalanceRoute(Checksum(2), 2, Checksum(6))}

MineRoutes ==
    \E evs \in SeqsUpTo(RouteEvents, MaxLeavesPerBlock) :
        Len(log) + Len(evs) <= MaxSettings /\ Mine(evs)

NextRoutes ==
    \/ MineRoutes
    \/ UpdateStart
    \/ UpdateQueried
    \/ UpdateTokenInfo
    \/ CallGetL1TokenCounterpartAtBlock
    \/ Return

SpecRoutes == Init /\ [][NextRoutes]_vars

\* The l1Tokens whose most recent mapping for l2ChainId at or before
\* `block` has the destination token l2Token.
L1TokensRoutedTo(l2ChainId, l2Token, block) ==
    {l1TokensToDestinationTokensWithBlock[e].l1Token :
        e \in {e \in 1..Len(l1TokensToDestinationTokensWithBlock) :
                  LET mappings == l1TokensToDestinationTokensWithBlock[e].chains[l2ChainId]
                      found == {i \in 1..Len(mappings) : mappings[i].blockNumber <= block}
                  IN \E i \in found :
                         /\ \A j \in found : ~EventBefore(mappings[i], mappings[j])
                         /\ mappings[i].l2Token = l2Token}}

\* C8: getL1TokenCounterpartAtBlock(l2Chain, l2Token, B) returns an l1Token
\* whose most recent route mapping for l2Chain at or before B has the
\* destination token l2Token, and throws when no l1Token has such a
\* mapping.
C8_CounterpartByMappingInEffect ==
    call.op = "getL1TokenCounterpartAtBlock" =>
        LET routed == L1TokensRoutedTo(call.args[1], call.args[2], call.args[3])
        IN IF routed = {}
           THEN call.ret.tag = "error"
           ELSE call.ret.tag = "ok" /\ call.ret.val \in routed

\* ------------------------------------------------------ bundle end blocks
getBundleEndBlockForChain(proposeRootBundleEvent, chainId, chainIdList) ==
    LET bundleEvaluationBlockNumbers == proposeRootBundleEvent.bundleEvaluationBlockNumbers
        chainIdIndex == IndexOf(chainIdList, chainId)
    IN IF chainIdIndex = -1
       THEN Ok(0)
       ELSE IF chainIdIndex >= Len(bundleEvaluationBlockNumbers)
            THEN Ok(0)
            ELSE IF toNumberThrows(bundleEvaluationBlockNumbers[chainIdIndex + 1])
                 THEN Err("overflow")
                 ELSE Ok(toNumber(bundleEvaluationBlockNumbers[chainIdIndex + 1]))

\* The chain id lists a caller passes; chain 3 is in none of them.
ChainIdLists == {<<1>>, <<1, 2>>, <<2, 1>>}

CallGetBundleEndBlockForChain ==
    \E proposeRootBundleEvent \in Range(proposedRootBundles),
       chainId \in Chains \cup {3}, chainIdList \in ChainIdLists :
        Answer("getBundleEndBlockForChain",
               <<proposeRootBundleEvent, chainId, chainIdList>>,
               getBundleEndBlockForChain(proposeRootBundleEvent, chainId, chainIdList))

\* The chain emits proposals with evaluation blocks for no, one or two
\* chains, among them a block number of 2^53 or more, which the HubPool
\* does not refuse, and executed leaves.
EndBlockEvents ==
    {ProposeRootBundle(1, evaluationBlockNumbers) :
        evaluationBlockNumbers \in {<<>>, <<BN(1)>>, <<BN(1), BN(2)>>,
                                    <<BN(2), BNOver53(0)>>}}
    \cup {RootBundleExecuted(1, <<Checksum(1)>>, <<BN(0)>>)}

MineEndBlocks == \E evs \in SeqsUpTo(EndBlockEvents, MaxLeavesPerBlock) : Mine(evs)

NextEndBlocks ==
    \/ MineEndBlocks
    \/ UpdateStart
    \/ UpdateQueried
    \/ UpdateTokenInfo
    \/ CallGetBundleEndBlockForChain
    \/ Return

SpecEndBlocks == Init /\ [][NextEndBlocks]_vars

\* C10: getBundleEndBlockForChain(bundle, chain, chainIdList) returns
\* bundle.bundleEvaluationBlockNumbers[chainIdList.indexOf(chain)] when the
\* chain is in the list and the index is within the bundle's array, and 0
\* when the chain is not in the list or the index is beyond the array.
C10_EndBlockOrZero ==
    call.op = "getBundleEndBlockForChain" =>
        LET evaluationBlockNumbers == call.args[1].bundleEvaluationBlockNumbers
            index == IndexOf(call.args[3], call.args[2])
        IN /\ call.ret.tag = "ok"
           /\ IF index # -1 /\ index < Len(evaluationBlockNumbers)
              THEN BN(call.ret.val) = evaluationBlockNumbers[index + 1]
              ELSE call.ret.val = 0

\* ------------------------------------------------- the ledger as a whole
CallHasPendingProposal ==
    Answer("hasPendingProposal", <<>>, Ok(pendingRootBundle # None))

CallGetProposedRootBundles ==
    Answer("getProposedRootBundles", <<>>, Ok(proposedRootBundles))

\* The chain emits proposals (one of them with an evaluation block of 2^53
\* or more), executed leaves and spoke pools, and enables tokens: WETH, a
\* second token that calls itself WETH and has 19 decimals, and a token of
\* its own symbol with 19 decimals.
LedgerEvents ==
    {ProposeRootBundle(1, <<BN(1)>>), ProposeRootBundle(1, <<BNOver53(1)>>),
     RootBundleExecuted(1, <<Checksum(1)>>, <<BN(0)>>),
     CrossChainContractsSet(1, Checksum(7)),
     L1TokenEnabledForLiquidityProvision(Checksum(1)),
     L1TokenEnabledForLiquidityProvision(Checksum(9)),
     L1TokenEnabledForLiquidityProvision(Checksum(4))}

MineLedger ==
    \E evs \in SeqsUpTo(LedgerEvents, MaxLeavesPerBlock) :
        Len(log) + Len(evs) <= MaxLedgerEvents /\ Mine(evs)

NextLedger ==
    \/ MineLedger
    \/ UpdateStart
    \/ UpdateQueried
    \/ UpdateTokenInfo
    \/ CallHasPendingProposal
    \/ CallGetProposedRootBundles
    \/ Return

SpecLedger == Init /\ [][NextLedger]_vars

IsPrefix(s, t) == Len(s) <= Len(t) /\ SubSeq(t, 1, Len(s)) = s

SortedByBlock(s) ==
    \A i \in 1..(Len(s) - 1) : s[i].blockNumber <= s[i + 1].blockNumber

\* C11: the list of proposed bundles is sorted by blockNumber ascending,
\* and every step of update() only appends to it: the list before the step
\* is a prefix of the list after it.
C11_ProposedSortedAndAppendOnly ==
    [][/\ SortedByBlock(proposedRootBundles')
       /\ IsPrefix(proposedRootBundles, proposedRootBundles')]_vars

\* Two updates have appended a bundle each.
C11_Witness ==
    /\ pc = "idle"
    /\ Len(proposedRootBundles) = 2
    /\ proposedRootBundles[1].blockNumber < proposedRootBundles[2].blockNumber
    /\ firstBlockToSearch > proposedRootBundles[2].blockNumber

\* No entry of the list is stored twice.  (An entry carries the position
\* of its event on the chain, so equal entries are one event.)
NoRepeat(s) == \A i, j \in 1..Len(s) : i # j => s[i] # s[j]

\* C12: whether or not updates fail, every event of the chain is applied
\* to the ledger (bundle lists, route mappings, cross-chain bindings) at
\* most once.
C12_EachEventAppliedAtMostOnce ==
    /\ NoRepeat(proposedRootBundles)
    /\ NoRepeat(executedRootBundles)
    /\ NoRepeat(canceledRootBundles)
    /\ NoRepeat(disputedRootBundles)
    /\ \A chain \in Chains : NoRepeat(crossChainContracts[chain])
    /\ \A e \in 1..Len(l1TokensToDestinationTokensWithBlock) :
           \A chain \in Chains :
               NoRepeat(l1TokensToDestinationTokensWithBlock[e].chains[chain])

\* The events of one kind in the window of the update in flight.
BatchOf(kind) ==
    paginatedEventQuery(log, kind, firstBlockToSearch,
                        SearchToBlock(latestBlockNumber[1]))

\* The update in flight has set latestBlockNumber (and, past its event
\* queries, stored the routes and bindings of its batch), and a proposed
\* or executed bundle of the batch is not in the ledger yet.
PartlyApplied ==
    /\ pc # "idle"
    /\ \/ \E i \in 1..Len(BatchOf("ProposeRootBundle")) :
              ProposedRootBundle(BatchOf("ProposeRootBundle")[i])
                  \notin Range(proposedRootBundles)
       \/ \E i \in 1..Len(BatchOf("RootBundleExecuted")) :
              ExecutedRootBundle(BatchOf("RootBundleExecuted")[i])
                  \notin Range(executedRootBundles)

\* C13: a query answered while update() is in flight never sees
\* latestBlockNumber, routes or bindings of the batch applied while the
\* proposed or executed bundles of the batch are not.
C13_QueriesSeeNoPartialUpdate ==
    call # NoCall => ~PartlyApplied

\* The tokens that the batch of the update in flight enables and whose
\* decimals() is outside (0, 18].
UnsupportedOfBatch ==
    {fetched.events[i].args.l1Token :
        i \in {i \in 1..Len(fetched.events) :
                  /\ fetched.events[i].kind = "L1TokenEnabledForLiquidityProvision"
                  /\ LET decimals == TokenDecimals(fetched.events[i].args.l1Token.id)
                     IN ~(decimals > 0 /\ decimals <= 18)}}

\* C14: an update whose batch enables a token with decimals outside
\* (0, 18] fails (it does not complete its window), and the token is not
\* taken into the ledger.
C14_UnsupportedTokenFailsUpdate ==
    [][(pc = "tokenInfo" /\ UnsupportedOfBatch # {}) =>
           /\ firstBlockToSearch' = firstBlockToSearch
           /\ isUpdated' = isUpdated
           /\ UnsupportedOfBatch \cap lpTokens' = {}]_vars

\* The step on which update() runs to its end.
UpdateCompletes ==
    pc = "tokenInfo" /\ pc' = "idle" /\ firstBlockToSearch' # firstBlockToSearch

\* The number a BigNumber is handed on as: itself, or 0 when it is 2^53 or
\* more.
NumberOrZero(bn) == IF bn.over53 THEN 0 ELSE bn.low

\* C15 as stated: when update() returns, hasPendingProposal() is true iff
\* the unclaimedPoolRebalanceLeafCount of the chain is > 0 at that time, and
\* then the pending bundle has the proposalBlockNumber and the
\* bundleEvaluationBlockNumbers of the most recently appended bundle.
C15_PendingIffUnclaimedOnChain ==
    [][UpdateCompletes =>
           /\ (pendingRootBundle' # None) <=>
                  (rootBundleProposal(log').unclaimedPoolRebalanceLeafCount > 0)
           /\ pendingRootBundle' # None =>
                  LET pending == pendingRootBundle'[1]
                      bundle == Last(proposedRootBundles')
                  IN /\ pending.proposalBlockNumber = bundle.blockNumber
                     /\ Len(pending.bundleEvaluationBlockNumbers)
                            = Len(bundle.bundleEvaluationBlockNumbers)
                     /\ \A i \in 1..Len(bundle.bundleEvaluationBlockNumbers) :
                            BN(pending.bundleEvaluationBlockNumbers[i])
                                = bundle.bundleEvaluationBlockNumbers[i]]_vars

\* C15, amended: when update() runs to its end, hasPendingProposal() is
\* true iff the unclaimedPoolRebalanceLeafCount that this update read from
\* the chain was > 0, and then the pending bundle has the
\* proposalBlockNumber of the most recently appended bundle and its
\* bundleEvaluationBlockNumbers with every number of 2^53 or more replaced
\* by 0; every other step (an update that returns early or throws, a new
\* block) leaves the pending bundle as it was.
C15_PendingIffUnclaimedAsRead ==
    [][/\ UpdateCompletes =>
              /\ (pendingRootBundle' # None) <=>
                     (fetched.unclaimedPoolRebalanceLeafCount > 0)
              /\ pendingRootBundle' # None =>
                     LET pending == pendingRootBundle'[1]
                         bundle == Last(proposedRootBundles')
                     IN /\ pending.proposalBlockNumber = bundle.blockNumber
                        /\ Len(pending.bundleEvaluationBlockNumbers)
                               = Len(bundle.bundleEvaluationBlockNumbers)
                        /\ \A i \in 1..Len(bundle.bundleEvaluationBlockNumbers) :
                               pending.bundleEvaluationBlockNumbers[i]
                                   = NumberOrZero(bundle.bundleEvaluationBlockNumbers[i])
       /\ ~UpdateCompletes => pendingRootBundle' = pendingRootBundle]_vars

\* An update has run to its end and left a pending bundle with an
\* evaluation block turned into 0, taken from the second stored proposal.
C15_Witness ==
    /\ pc = "idle"
    /\ isUpdated
    /\ call.op = "hasPendingProposal"
    /\ call.ret = Ok(TRUE)
    /\ Len(proposedRootBundles) = 2
    /\ Last(proposedRootBundles).bundleEvaluationBlockNumbers[1].over53
    /\ pendingRootBundle[1].bundleEvaluationBlockNumbers = <<0>>
    /\ pendingRootBundle[1].proposalBlockNumber = Last(proposedRootBundles).blockNumber

\* ----------------------------------------- getBlockRangeForDepositId
SearchBlocks == 0..MaxSearchBlock

\* spokePool.numberOfDeposits at every block: a count that never falls.
Counters ==
    {counter \in [SearchBlocks -> 0..MaxDeposits] :
        \A b \in 1..MaxSearchBlock : counter[b - 1] <= counter[b]}

\* The call as it starts: its arguments, nothing queried, nothing read.
StartSearch(counter, targetDepositId, initLow, initHigh, maxSearches) ==
    [pc |-> "arguments", counter |-> counter, targetDepositId |-> targetDepositId,
     initLow |-> initLow, initHigh |-> initHigh, maxSearches |-> maxSearches,
     queriedIds |-> [b \in SearchBlocks |-> None], reads |-> <<>>,
     low |-> initLow, high |-> initHigh, searches |-> 0,
     ret |-> [tag |-> "none", val |-> <<>>]]

\* getDepositIdAtBlock without the lookup in queriedIds: every call reads
\* the spoke pool.
getDepositIdAtBlock_NoCache(s, blockNumber) ==
    [s EXCEPT !.queriedIds[blockNumber] = Some(s.counter[blockNumber]),
              !.reads = Append(@, blockNumber)]

\* getDepositIdAtBlock: the call after the lookup of blockNumber, which
\* reads the spoke pool only when the block is not in queriedIds.
getDepositIdAtBlock(s, blockNumber) ==
    IF s.queriedIds[blockNumber] = None
    THEN [s EXCEPT !.queriedIds[blockNumber] = Some(s.counter[blockNumber]),
                   !.reads = Append(@, blockNumber)]
    ELSE s

Thrown(s, msg) == [s EXCEPT !.pc = "done", !.ret = Err(msg)]

\* The sanity checks without the check of initLow against 0.
checkArguments_NoLowCheck(s) ==
    IF s.initLow > s.initHigh
    THEN Thrown(s, "Binary search failed because low > high")
    ELSE IF s.maxSearches <= 0
         THEN Thrown(s, "maxSearches must be > 0")
         ELSE [s EXCEPT !.pc = "high"]

\* The sanity checks of the arguments.
checkArguments(s) ==
    IF s.initLow < 0
    THEN Thrown(s, "Binary search failed because low must be >= 0")
    ELSE IF s.initLow > s.initHigh
         THEN Thrown(s, "Binary search failed because low > high")
         ELSE IF s.maxSearches <= 0
              THEN Thrown(s, "maxSearches must be > 0")
              ELSE [s EXCEPT !.pc = "high"]

\* The check of the count at initHigh that lets every count pass.
checkHigh_NoCheck(s) ==
    LET t == getDepositIdAtBlock(s, s.initHigh)
    IN [t EXCEPT !.pc = "low"]

\* The check of the count at initHigh.
checkHigh(s) ==
    LET t == getDepositIdAtBlock(s, s.initHigh)
    IN IF t.queriedIds[s.initHigh][1] < s.targetDepositId
       THEN Thrown(t, "Failed to find deposit ID")
       ELSE [t EXCEPT !.pc = "low"]

\* The check of the count at initLow, and the start of the loop.
checkLow(s) ==
    LET t == getDepositIdAtBlock(s, s.initLow)
    IN IF t.queriedIds[s.initLow][1] > s.targetDepositId
       THEN Thrown(t, "Failed to find deposit ID")
       ELSE [t EXCEPT !.pc = "loop", !.low = s.initLow, !.high = s.initHigh,
                      !.searches = 0]

\* The pass of the loop that also moves low up when the target is the last
\* deposit of the midpoint block.
bisect_OffByOne(s) ==
    LET mid == (s.low + s.high) \div 2
        t == getDepositIdAtBlock(s, mid)
        midDepositId == t.queriedIds[mid][1]
        u == IF mid = 0 THEN t ELSE getDepositIdAtBlock(t, mid - 1)
        prevDepositId == IF mid = 0 THEN 0 ELSE u.queriedIds[mid - 1][1]
        lowRange == prevDepositId
        highRange == midDepositId - 1
        low == IF s.targetDepositId < lowRange THEN s.low
               ELSE IF s.targetDepositId >= highRange THEN mid + 1 ELSE mid
        high == IF s.targetDepositId < lowRange THEN mid - 1
                ELSE IF s.targetDepositId >= highRange THEN s.high ELSE mid
        searches == s.searches + 1
    IN IF searches < s.maxSearches /\ low < high
       THEN [u EXCEPT !.low = low, !.high = high, !.searches = searches]
       ELSE [u EXCEPT !.low = low, !.high = high, !.searches = searches,
                      !.pc = "done", !.ret = Ok([low |-> low, high |-> high])]

\* The pass of the loop whose test counts the searches after comparing
\* them (searches++ for ++searches).
bisect_PostIncrement(s) ==
    LET mid == (s.low + s.high) \div 2
        t == getDepositIdAtBlock(s, mid)
        midDepositId == t.queriedIds[mid][1]
        u == IF mid = 0 THEN t ELSE getDepositIdAtBlock(t, mid - 1)
        prevDepositId == IF mid = 0 THEN 0 ELSE u.queriedIds[mid - 1][1]
        lowRange == prevDepositId
        highRange == midDepositId - 1
        low == IF s.targetDepositId < lowRange THEN s.low
               ELSE IF s.targetDepositId > highRange THEN mid + 1 ELSE mid
        high == IF s.targetDepositId < lowRange THEN mid - 1
                ELSE IF s.targetDepositId > highRange THEN s.high ELSE mid
        searches == s.searches + 1
    IN IF s.searches < s.maxSearches /\ low < high
       THEN [u EXCEPT !.low = low, !.high = high, !.searches = searches]
       ELSE [u EXCEPT !.low = low, !.high = high, !.searches = searches,
                      !.pc = "done", !.ret = Ok([low |-> low, high |-> high])]

\* The pass of the loop that moves low to the midpoint, not past it, when
\* the target is above the midpoint's range.
bisect_LowToMid(s) ==
    LET mid == (s.low + s.high) \div 2
        t == getDepositIdAtBlock(s, mid)
        midDepositId == t.queriedIds[mid][1]
        u == IF mid = 0 THEN t ELSE getDepositIdAtBlock(t, mid - 1)
        prevDepositId == IF mid = 0 THEN 0 ELSE u.queriedIds[mid - 1][1]
        lowRange == prevDepositId
        highRange == midDepositId - 1
        low == IF s.targetDepositId < lowRange THEN s.low ELSE mid
        high == IF s.targetDepositId < lowRange THEN mid - 1
                ELSE IF s.targetDepositId > highRange THEN s.high ELSE mid
        searches == s.searches + 1
    IN IF searches < s.maxSearches /\ low < high
       THEN [u EXCEPT !.low = low, !.high = high, !.searches = searches]
       ELSE [u EXCEPT !.low = low, !.high = high, !.searches = searches,
                      !.pc = "done", !.ret = Ok([low |-> low, high |-> high])]

\* One pass of the do-while loop, with its test.
bisect(s) ==
    LET mid == (s.low + s.high) \div 2
        t == getDepositIdAtBlock(s, mid)
        midDepositId == t.queriedIds[mid][1]
        u == IF mid = 0 THEN t ELSE getDepositIdAtBlock(t, mid - 1)
        prevDepositId == IF mid = 0 THEN 0 ELSE u.queriedIds[mid - 1][1]
        lowRange == prevDepositId
        highRange == midDepositId - 1
        low == IF s.targetDepositId < lowRange THEN s.low
               ELSE IF s.targetDepositId > highRange THEN mid + 1 ELSE mid
        high == IF s.targetDepositId < lowRange THEN mid - 1
                ELSE IF s.targetDepositId > highRange THEN s.high ELSE mid
        searches == s.searches + 1
    IN IF searches < s.maxSearches /\ low < high
       THEN [u EXCEPT !.low = low, !.high = high, !.searches = searches]
       ELSE [u EXCEPT !.low = low, !.high = high, !.searches = searches,
                      !.pc = "done", !.ret = Ok([low |-> low, high |-> high])]

hubVars == <<chainVars, config, ledgerVars, updateVars, call>>

SearchCheckArguments ==
    /\ search.pc = "arguments"
    /\ search' = checkArguments(search)
    /\ UNCHANGED <<hubVars, calc, cache>>

SearchCheckHigh ==
    /\ search.pc = "high"
    /\ search' = checkHigh(search)
    /\ UNCHANGED <<hubVars, calc, cache>>

SearchCheckLow ==
    /\ search.pc = "low"
    /\ search' = checkLow(search)
    /\ UNCHANGED <<hubVars, calc, cache>>

SearchBisect ==
    /\ search.pc = "loop"
    /\ search' = bisect(search)
    /\ UNCHANGED <<hubVars, calc, cache>>

\* A call of getBlockRangeForDepositId on a spoke pool, with block
\* arguments of the chain and below it, and with no searches allowed.
InitSearch ==
    /\ head = 0
    /\ log = <<>>
    /\ InitClient(DefaultConfig)
    /\ \E counter \in Counters, targetDepositId \in 0..MaxDeposits,
          initLow \in (0 - 1)..MaxSearchBlock, initHigh \in SearchBlocks,
          maxSearches \in 0..MaxSearches :
           search = StartSearch(counter, targetDepositId, initLow, initHigh, maxSearches)
    /\ calc = NoCalculator
    /\ cache = NoCache

NextSearch ==
    \/ SearchCheckArguments
    \/ SearchCheckHigh
    \/ SearchCheckLow
    \/ SearchBisect

SpecSearch == InitSearch /\ [][NextSearch]_vars

\* The spoke pool answers every read, so every awaited step of the call is
\* resumed.
SpecSearchFair == SpecSearch /\ WF_vars(NextSearch)

\* C16: getBlockRangeForDepositId throws, before it has read any count,
\* whenever initLow < 0, initLow > initHigh or maxSearches <= 0, and it
\* returns no range then.
C16_BadArgumentsThrowBeforeAnyRead ==
    (/\ search.pc \notin {"none", "arguments"}
     /\ \/ search.initLow < 0
        \/ search.initLow > search.initHigh
        \/ search.maxSearches <= 0) =>
        /\ search.pc = "done"
        /\ search.ret.tag = "error"
        /\ search.reads = <<>>

\* A call with initLow below 0, otherwise in order, has thrown.
C16_Witness ==
    /\ search.pc = "done"
    /\ search.initLow < 0
    /\ search.maxSearches > 0
    /\ search.ret.tag = "error"
    /\ search.reads = <<>>

\* The arguments pass the sanity checks.
ValidArguments ==
    /\ search.initLow >= 0
    /\ search.initLow <= search.initHigh
    /\ search.maxSearches > 0

\* The target is outside the counts of the initial range.
OutsideBracket ==
    \/ search.counter[search.initHigh] < search.targetDepositId
    \/ search.counter[search.initLow] > search.targetDepositId

\* C17: with valid range arguments the call throws whenever
\* counter(initHigh) < target or counter(initLow) > target, without a pass
\* of the loop, and it enters the loop in every other case.
C17_OutsideBracketThrowsElseBisects ==
    (search.pc \in {"loop", "done"} /\ ValidArguments) =>
        IF OutsideBracket
        THEN search.pc = "done" /\ search.ret.tag = "error" /\ search.searches = 0
        ELSE search.pc = "loop" \/ (search.ret.tag = "ok" /\ search.searches >= 1)

\* The count at initHigh is below the target, and the call has thrown
\* after that one read.
C17_Witness ==
    /\ search.pc = "done"
    /\ ValidArguments
    /\ search.initLow < search.initHigh
    /\ search.counter[search.initHigh] < search.targetDepositId
    /\ search.ret.tag = "error"
    /\ search.reads = <<search.initHigh>>

\* The call has returned a range on arguments that pass every check.
ReturnedOnBracket ==
    /\ search.pc = "done"
    /\ ValidArguments
    /\ ~OutsideBracket

\* C18: for a count that never falls and arguments with 0 <= low <= high,
\* maxSearches >= 1 and counter(low) <= target <= counter(high), the call
\* returns a range {l, h} with l <= h.
C18_ReturnedRangeIsOrdered ==
    ReturnedOnBracket =>
        /\ search.ret.tag = "ok"
        /\ search.ret.val.low <= search.ret.val.high

C20_CountAtHighAboveTarget ==
    (search.pc = "done" /\ search.ret.tag = "ok") =>
        /\ search.ret.val.high \in SearchBlocks
        /\ search.counter[search.ret.val.high] > search.targetDepositId

\* The returned range is one block above block 0.
ReturnedCollapsed ==
    /\ ReturnedOnBracket
    /\ search.ret.tag = "ok"
    /\ search.ret.val.low = search.ret.val.high
    /\ search.ret.val.low > 0
    /\ search.ret.val.low \in SearchBlocks

\* C21 as stated: on arguments with counter(low) <= target <= counter(high),
\* a returned range that is collapsed on a block l > 0 has
\* counter(l - 1) < target <= counter(l).
C21_CollapsedCountReachesTargetAtLow ==
    ReturnedCollapsed =>
        /\ search.counter[search.ret.val.low - 1] < search.targetDepositId
        /\ search.targetDepositId <= search.counter[search.ret.val.low]

\* C21, amended: such a range has counter(l - 1) <= target <= counter(l),
\* and target < counter(l) whenever l is below initHigh or the count at
\* initHigh is above the target.
C21_CollapsedCountPassesTargetAtLow ==
    ReturnedCollapsed =>
        /\ search.counter[search.ret.val.low - 1] <= search.targetDepositId
        /\ search.targetDepositId <= search.counter[search.ret.val.low]
        /\ (\/ search.ret.val.low < search.initHigh
            \/ search.counter[search.initHigh] > search.targetDepositId) =>
               search.targetDepositId < search.counter[search.ret.val.low]

\* A search from a wider range has collapsed on the block in which the
\* deposit with the target id was made.
C21_Witness ==
    /\ ReturnedCollapsed
    /\ search.initLow < search.initHigh
    /\ search.ret.val.low < search.initHigh
    /\ search.counter[search.ret.val.low - 1] = search.targetDepositId
    /\ search.counter[search.ret.val.low] > search.targetDepositId

\* C22: within one call the spoke pool is read at most once for any block
\* number, over the two checks and every pass of the loop.
C22_EachBlockReadAtMostOnce ==
    search.pc # "none" =>
        \A i, j \in 1..Len(search.reads) :
            search.reads[i] = search.reads[j] => i = j

\* A call on a one-block range above block 0: the two checks and the first
\* pass all ask for that block, and it is read once, before its neighbour.
C22_Witness ==
    /\ search.pc = "done"
    /\ search.ret.tag = "ok"
    /\ search.initLow = search.initHigh
    /\ search.initHigh > 0
    /\ search.reads = <<search.initHigh, search.initHigh - 1>>

\* The loop has run at least once and at most maxSearches times when the
\* call returns, and it goes on only while searches remain and low < high.
LoopBounded ==
    /\ (search.pc = "done" /\ search.ret.tag = "ok") =>
           /\ search.searches >= 1
           /\ search.searches <= search.maxSearches
    /\ (search.pc = "loop" /\ search.searches > 0) =>
           /\ search.searches < search.maxSearches
           /\ search.low < search.high

\* C23: with a spoke pool that answers every read, every call of
\* getBlockRangeForDepositId ends; the loop runs at least once and at most
\* maxSearches times, and it stops after the first pass that leaves
\* low >= high.
C23_TerminatesWithinMaxSearches ==
    [](search.pc # "none" => LoopBounded) /\ <>(search.pc = "done")

\* A call that returned after one pass with low >= high although it had
\* searches left.
C23_Witness ==
    /\ search.pc = "done"
    /\ search.ret.tag = "ok"
    /\ search.searches = 1
    /\ search.maxSearches > 1
    /\ search.initLow < search.initHigh
    /\ search.low >= search.high

\* ---------------------------------------------------- UBAFeeCalculator
\* Amounts of flows and of the actions a fee is asked for.
Amounts == {5, 30, 100}

\* A flow record: its amount and the fields the type guards look at, each
\* absent (undefined) or present; a present field may hold 0 or false.
UbaFlows ==
    [amount : Amounts,
     quoteTimestamp : {None, Some(0), Some(1)},
     isSlowRelay : {None, Some(FALSE)},
     fillBlock : {None, Some(1)}]

Flow(amount, quoteTimestamp, isSlowRelay, fillBlock) ==
    [amount |-> amount, quoteTimestamp |-> quoteTimestamp,
     isSlowRelay |-> isSlowRelay, fillBlock |-> fillBlock]

\* isUbaInflow that tests the quoteTimestamp for truth, not for presence.
isUbaInflow_Truthy(flow) ==
    flow.quoteTimestamp # None /\ flow.quoteTimestamp # Some(0)

isUbaInflow(flow) == flow.quoteTimestamp # None

outflowIsFill(outflow) == outflow.isSlowRelay # None

outflowIsRefund(outflow) == outflow.fillBlock # None

\* isUbaOutflow without the test that the record is no inflow.
isUbaOutflow_NoGuard(flow) == outflowIsFill(flow) \/ outflowIsRefund(flow)

isUbaOutflow(flow) ==
    ~isUbaInflow(flow) /\ (outflowIsFill(flow) \/ outflowIsRefund(flow))

\* The reducer of calculateRecentRunningBalance: one record folded into the
\* balance.
addFlow(acc, flow) ==
    IF isUbaInflow(flow) THEN acc + flow.amount
    ELSE IF isUbaOutflow(flow) THEN acc - flow.amount
    ELSE acc

\* Array.prototype.reduce with that reducer.
RECURSIVE reduceFlows(_, _)
reduceFlows(flow, initialValue) ==
    IF flow = <<>> THEN initialValue
    ELSE reduceFlows(Tail(flow), addFlow(initialValue, Head(flow)))

\* Array.prototype.slice(start, end): a negative index counts from the end,
\* both are clamped to the list.
slice(list, start, end) ==
    LET len == Len(list)
        from == IF start < 0 THEN Max(len + start, 0) ELSE Min(start, len)
        to == IF end < 0 THEN Max(len + end, 0) ELSE Min(end, len)
    IN SubSeq(list, from + 1, to)

\* The spoke of a side.
Spoke(c, type) == IF type = "origin" THEN c.originSpoke ELSE c.refundSpoke

\* calculateRecentRunningBalance that takes the records of the range out
\* of the spoke's list (splice for slice).
calculateRecentRunningBalance_Splice(c, type, flowRange) ==
    LET spoke == Spoke(c, type)
        flow == IF flowRange # None
                THEN slice(spoke.recentRequestFlow,
                           flowRange[1].startIndex, flowRange[1].endIndex)
                ELSE spoke.recentRequestFlow
        rest == IF flowRange # None
                THEN slice(spoke.recentRequestFlow, 0, flowRange[1].startIndex)
                     \o slice(spoke.recentRequestFlow,
                              Max(flowRange[1].startIndex, flowRange[1].endIndex),
                              Len(spoke.recentRequestFlow))
                ELSE spoke.recentRequestFlow
        validatedRunningBalance == spoke.lastValidatedRunningBalance
    IN [calc |-> IF type = "origin"
                 THEN [c EXCEPT !.originSpoke.recentRequestFlow = rest]
                 ELSE [c EXCEPT !.refundSpoke.recentRequestFlow = rest],
        value |-> reduceFlows(flow, IF validatedRunningBalance = None THEN 0
                                    ELSE validatedRunningBalance[1])]

\* calculateRecentRunningBalance that folds the whole list whatever the
\* range.
calculateRecentRunningBalance_WholeList(c, type, flowRange) ==
    LET spoke == Spoke(c, type)
        validatedRunningBalance == spoke.lastValidatedRunningBalance
    IN [calc |-> c,
        value |-> reduceFlows(spoke.recentRequestFlow,
                              IF validatedRunningBalance = None THEN 0
                              ELSE validatedRunningBalance[1])]

\* calculateRecentRunningBalance: the calculator after the call, and the
\* balance returned.
calculateRecentRunningBalance(c, type, flowRange) ==
    LET spoke == Spoke(c, type)
        flow == IF flowRange # None
                THEN slice(spoke.recentRequestFlow,
                           flowRange[1].startIndex, flowRange[1].endIndex)
                ELSE spoke.recentRequestFlow
        validatedRunningBalance == spoke.lastValidatedRunningBalance
    IN [calc |-> c,
        value |-> reduceFlows(flow, IF validatedRunningBalance = None THEN 0
                                    ELSE validatedRunningBalance[1])]

\* UBAConfig.getBaselineFee, getUtilizationFee and getBalancingFeeTuples
\* read the calculator's config.
getBaselineFee(cfg, originChain, refundChain) ==
    cfg.baselineFee[<<originChain, refundChain>>]

getUtilizationFee(cfg) == cfg.utilizationFee

getBalancingFeeTuples(cfg, chainId) == cfg.balancingFee[chainId]

\* The value of a piecewise-linear curve {cutoffs, values} at x: the first
\* value below the first cutoff, the last value from the last cutoff on,
\* interpolated between two cutoffs.
RECURSIVE CurveAt(_, _)
CurveAt(tuples, x) ==
    IF Len(tuples) = 1 \/ x <= tuples[1].cutoff THEN tuples[1].value
    ELSE IF x < tuples[2].cutoff
         THEN tuples[1].value
              + ((tuples[2].value - tuples[1].value) * (x - tuples[1].cutoff))
                \div (tuples[2].cutoff - tuples[1].cutoff)
         ELSE CurveAt(Tail(tuples), x)

\* The curve integrated between two balances (the curve is linear between
\* them, or nearly), per FeeUnit of balance.
FeeUnit == 10

IntegrateCurve(tuples, from, to) ==
    ((CurveAt(tuples, from) + CurveAt(tuples, to)) * (to - from)) \div (2 * FeeUnit)

\* The balancing fee of a deposit: the amount flows into the spoke.
getDepositBalancingFee(tuples, runningBalance, amount) ==
    IntegrateCurve(tuples, runningBalance, runningBalance + amount)

\* The balancing fee of a refund: the amount flows out of the spoke.
getRefundBalancingFee(tuples, runningBalance, amount) ==
    IntegrateCurve(tuples, runningBalance - amount, runningBalance)

\* getUBAFee that adds the alpha fee to the refund fee and the utilization
\* fee to the depositor fee.
getUBAFee_Swapped(c, amount, flowRange) ==
    LET originChain == c.originSpoke.chainId
        refundChain == c.refundSpoke.chainId
        refund == calculateRecentRunningBalance(c, "refund", flowRange)
        origin == calculateRecentRunningBalance(refund.calc, "origin", flowRange)
        alphaFee == getBaselineFee(c.config, originChain, refundChain)
        utilizationFee == getUtilizationFee(c.config)
        originBalancingFeeTuples == getBalancingFeeTuples(c.config, originChain)
        refundBalancingFeeTuples == getBalancingFeeTuples(c.config, refundChain)
        refundFee == 0 + alphaFee
            + getRefundBalancingFee(refundBalancingFeeTuples, refund.value, amount)
        depositorFee == 0 + utilizationFee
            + getDepositBalancingFee(originBalancingFeeTuples, origin.value, amount)
    IN [calc |-> origin.calc,
        value |-> [depositorFee |-> depositorFee, refundFee |-> refundFee,
                   totalUBAFee |-> depositorFee + refundFee]]

\* getUBAFee: the calculator after the call, and the fees returned.
getUBAFee(c, amount, flowRange) ==
    LET originChain == c.originSpoke.chainId
        refundChain == c.refundSpoke.chainId
        refund == calculateRecentRunningBalance(c, "refund", flowRange)
        origin == calculateRecentRunningBalance(refund.calc, "origin", flowRange)
        alphaFee == getBaselineFee(c.config, originChain, refundChain)
        utilizationFee == getUtilizationFee(c.config)
        originBalancingFeeTuples == getBalancingFeeTuples(c.config, originChain)
        refundBalancingFeeTuples == getBalancingFeeTuples(c.config, refundChain)
        refundFee == 0 + utilizationFee
            + getRefundBalancingFee(refundBalancingFeeTuples, refund.value, amount)
        depositorFee == 0 + alphaFee
            + getDepositBalancingFee(originBalancingFeeTuples, origin.value, amount)
    IN [calc |-> origin.calc,
        value |-> [depositorFee |-> depositorFee, refundFee |-> refundFee,
                   totalUBAFee |-> depositorFee + refundFee]]

\* The map of getHistoricalUBAFees from index idx (counted from 0) on, over
\* the list the call started with.
RECURSIVE mapFlows_Inclusive(_, _, _)
mapFlows_Inclusive(c, list, idx) ==
    IF idx >= Len(list) THEN [calc |-> c, value |-> <<>>]
    ELSE LET fee == getUBAFee(c, list[idx + 1].amount,
                              Some([startIndex |-> 0, endIndex |-> idx + 1]))
             rest == mapFlows_Inclusive(fee.calc, list, idx + 1)
         IN [calc |-> rest.calc, value |-> <<fee.value>> \o rest.value]

RECURSIVE mapFlows(_, _, _)
mapFlows(c, list, idx) ==
    IF idx >= Len(list) THEN [calc |-> c, value |-> <<>>]
    ELSE LET fee == getUBAFee(c, list[idx + 1].amount,
                              Some([startIndex |-> 0, endIndex |-> idx]))
             rest == mapFlows(fee.calc, list, idx + 1)
         IN [calc |-> rest.calc, value |-> <<fee.value>> \o rest.value]

\* getHistoricalUBAFees: the calculator after the call, and the fees
\* returned.
getHistoricalUBAFees(c, type) ==
    mapFlows(c, (IF type = "refund" THEN c.refundSpoke ELSE c.originSpoke).recentRequestFlow, 0)

\* The config the calculators are built on: an alpha fee per pair of
\* chains, a utilization fee, a balancing fee curve per chain.
UBAConfig ==
    [baselineFee |-> [p \in Chains \X Chains |-> 10 * p[1] + p[2]],
     utilizationFee |-> 7,
     balancingFee |-> [chain \in Chains |->
         <<[cutoff |-> 0, value |-> 20 * chain],
           [cutoff |-> 50, value |-> 40 * chain],
           [cutoff |-> 100, value |-> 100 * chain]>>]]

\* The records the spokes' lists are made of: deposits, a fill, a refund
\* request, a record without any of the three fields, and a record with a
\* quoteTimestamp and a fillBlock.
SpokeFlows ==
    {Flow(100, Some(1), None, None), Flow(5, Some(0), None, None),
     Flow(30, None, Some(FALSE), None), Flow(5, None, None, Some(1)),
     Flow(30, None, None, None), Flow(100, Some(1), None, Some(1))}

Sides == {"origin", "refund"}

\* The flow ranges asked for: none, or indices that may lie past the list
\* and may be out of order.
FlowRanges ==
    {None} \cup {Some([startIndex |-> a, endIndex |-> b]) :
                    a \in 0..MaxStartIndex, b \in 0..(MaxFlows + 1)}

\* A calculator as constructed, answering no call.
NewCalculator(originSpoke, refundSpoke) ==
    [pc |-> "idle", config |-> UBAConfig,
     originSpoke |-> originSpoke, refundSpoke |-> refundSpoke,
     op |-> "none", args |-> <<>>, ret |-> <<>>]

UBASpokeBalanceType(chainId, recentRequestFlow, lastValidatedRunningBalance) ==
    [chainId |-> chainId, recentRequestFlow |-> recentRequestFlow,
     lastValidatedRunningBalance |-> lastValidatedRunningBalance]

\* A call answered: the calculator as the call left it, with the call's
\* name, arguments and result.
Answered(result, op, args) ==
    [result.calc EXCEPT !.pc = "answered", !.op = op, !.args = args,
                        !.ret = result.value]

feeFrame == <<hubVars, search, cache>>

CallGetUBAFee ==
    /\ calc.pc = "idle"
    /\ \E amount \in Amounts, flowRange \in FlowRanges :
           calc' = Answered(getUBAFee(calc, amount, flowRange),
                            "getUBAFee", <<amount, flowRange>>)
    /\ UNCHANGED feeFrame

CallGetHistoricalUBAFees ==
    /\ calc.pc = "idle"
    /\ \E type \in Sides :
           calc' = Answered(getHistoricalUBAFees(calc, type),
                            "getHistoricalUBAFees", <<type>>)
    /\ UNCHANGED feeFrame

CallCalculateRecentRunningBalance ==
    /\ calc.pc = "idle"
    /\ \E type \in Sides, flowRange \in FlowRanges :
           calc' = Answered(calculateRecentRunningBalance(calc, type, flowRange),
                            "calculateRecentRunningBalance", <<type, flowRange>>)
    /\ UNCHANGED feeFrame

\* The type guards applied to a record, and the reducer applied to it on a
\* balance of 0.
CallClassify ==
    /\ calc.pc = "idle"
    /\ \E flow \in UbaFlows :
           calc' = Answered([calc |-> calc,
                             value |-> [isUbaInflow |-> isUbaInflow(flow),
                                        isUbaOutflow |-> isUbaOutflow(flow),
                                        folded |-> addFlow(0, flow)]],
                            "classify", <<flow>>)
    /\ UNCHANGED feeFrame

\* The caller has its answer.
CalcReturn ==
    /\ calc.pc = "answered"
    /\ calc' = [calc EXCEPT !.pc = "idle", !.op = "none", !.args = <<>>, !.ret = <<>>]
    /\ UNCHANGED feeFrame

\* A calculator on two spokes of different chains that hold at most
\* MaxFlows records together.
InitFees ==
    /\ head = 0
    /\ log = <<>>
    /\ InitClient(DefaultConfig)
    /\ search = NoSearch
    /\ cache = NoCache
    /\ \E originChain \in Chains, refundChain \in Chains,
          originFlow \in SeqsUpTo(SpokeFlows, MaxFlows),
          refundFlow \in SeqsUpTo(SpokeFlows, MaxFlows),
          originBalance \in {None, Some(0 - 40)},
          refundBalance \in {None, Some(60)} :
           /\ originChain # refundChain
           /\ Len(originFlow) + Len(refundFlow) <= MaxFlows
           /\ calc = NewCalculator(
                  UBASpokeBalanceType(originChain, originFlow, originBalance),
                  UBASpokeBalanceType(refundChain, refundFlow, refundBalance))

NextFees ==
    \/ CallGetUBAFee
    \/ CallGetHistoricalUBAFees
    \/ CallCalculateRecentRunningBalance
    \/ CallClassify
    \/ CalcReturn

SpecFees == InitFees /\ [][NextFees]_vars

\* The calculator has answered a call of op.
AnsweredOp(op) == calc.pc = "answered" /\ calc.op = op

\* The balance of a side over a range, as getUBAFee is to use it.
RunningBalance(type, flowRange) ==
    calculateRecentRunningBalance(calc, type, flowRange).value

\* C24: getUBAFee returns depositorFee = baseline fee of (originChain,
\* refundChain) + deposit balancing fee on the origin curve and balance,
\* refundFee = utilization fee + refund balancing fee on the refund curve
\* and balance, and totalUBAFee = depositorFee + refundFee; the baseline
\* fee is in no part of refundFee, the utilization fee in none of
\* depositorFee.
C24_FeesSplitBetweenDepositorAndRefund ==
    AnsweredOp("getUBAFee") =>
        LET amount == calc.args[1]
            flowRange == calc.args[2]
            originChain == calc.originSpoke.chainId
            refundChain == calc.refundSpoke.chainId
            depositBalancingFee ==
                getDepositBalancingFee(calc.config.balancingFee[originChain],
                                       RunningBalance("origin", flowRange), amount)
            refundBalancingFee ==
                getRefundBalancingFee(calc.config.balancingFee[refundChain],
                                      RunningBalance("refund", flowRange), amount)
        IN /\ calc.ret.depositorFee
                = calc.config.baselineFee[<<originChain, refundChain>>] + depositBalancingFee
           /\ calc.ret.refundFee = calc.config.utilizationFee + refundBalancingFee
           /\ calc.ret.totalUBAFee = calc.ret.depositorFee + calc.ret.refundFee
           /\ calc.ret.refundFee - refundBalancingFee
                # calc.config.baselineFee[<<originChain, refundChain>>]
           /\ calc.ret.depositorFee - depositBalancingFee # calc.config.utilizationFee

\* A fee for 30 over the first two records of each list, with balancing
\* fees on both sides.
C24_Witness ==
    /\ AnsweredOp("getUBAFee")
    /\ calc.args = <<30, Some([startIndex |-> 0, endIndex |-> 2])>>
    /\ Len(calc.originSpoke.recentRequestFlow) = 2
    /\ Len(calc.refundSpoke.recentRequestFlow) = 1
    /\ calc.ret.depositorFee > calc.config.baselineFee[<<calc.originSpoke.chainId,
                                                          calc.refundSpoke.chainId>>]
    /\ calc.ret.refundFee > calc.config.utilizationFee
    /\ calc.ret.totalUBAFee = calc.ret.depositorFee + calc.ret.refundFee

\* The places (counted from 1) of the records a range considers.
Considered(list, flowRange) ==
    {i \in 1..Len(list) :
        flowRange # None =>
            /\ flowRange[1].startIndex <= i - 1
            /\ i - 1 < flowRange[1].endIndex}

\* C25: calculateRecentRunningBalance returns lastValidatedRunningBalance
\* (0 when absent) plus the amounts of the inflows minus the amounts of the
\* outflows among the considered records, the records at indices
\* [startIndex, endIndex) when a flowRange is given, every record
\* otherwise.
C25_BalanceIsNetFlowOverRange ==
    AnsweredOp("calculateRecentRunningBalance") =>
        LET spoke == Spoke(calc, calc.args[1])
            list == spoke.recentRequestFlow
            considered == Considered(list, calc.args[2])
            inflows == {i \in considered : isUbaInflow(list[i])}
            outflows == {i \in considered : isUbaOutflow(list[i])}
            amounts == [i \in 1..Len(list) |-> list[i].amount]
            validated == IF spoke.lastValidatedRunningBalance = None THEN 0
                         ELSE spoke.lastValidatedRunningBalance[1]
        IN calc.ret = validated + SumOver(inflows, amounts) - SumOver(outflows, amounts)

\* Inflow 100, outflow 30, inflow 5 on no validated balance: 75.
C25_Witness ==
    /\ AnsweredOp("calculateRecentRunningBalance")
    /\ calc.args = <<"origin", None>>
    /\ calc.originSpoke.lastValidatedRunningBalance = None
    /\ calc.originSpoke.recentRequestFlow
         = <<Flow(100, Some(1), None, None), Flow(30, None, Some(FALSE), None),
             Flow(5, Some(0), None, None)>>
    /\ calc.ret = 75

\* C26 as stated: a record is an outflow iff it carries isSlowRelay or
\* fillBlock, and an inflow iff it carries a quoteTimestamp.
C26_OutflowIffMarkerInflowIffTimestamp ==
    AnsweredOp("classify") =>
        LET flow == calc.args[1]
        IN /\ calc.ret.isUbaOutflow <=> (flow.isSlowRelay # None \/ flow.fillBlock # None)
           /\ calc.ret.isUbaInflow <=> flow.quoteTimestamp # None

\* C26, amended: a record is an inflow iff it carries a quoteTimestamp, and
\* an outflow iff it carries no quoteTimestamp and carries isSlowRelay or
\* fillBlock.
C26_OutflowIffMarkerAndNoTimestamp ==
    AnsweredOp("classify") =>
        LET flow == calc.args[1]
        IN /\ calc.ret.isUbaOutflow <=>
                (/\ flow.quoteTimestamp = None
                 /\ (flow.isSlowRelay # None \/ flow.fillBlock # None))
           /\ calc.ret.isUbaInflow <=> flow.quoteTimestamp # None

\* A record with a quoteTimestamp of 0 and a fillBlock is an inflow and no
\* outflow.
C26_Witness ==
    /\ AnsweredOp("classify")
    /\ calc.args[1].quoteTimestamp = Some(0)
    /\ calc.args[1].isSlowRelay = None
    /\ calc.args[1].fillBlock # None
    /\ calc.ret.isUbaInflow
    /\ ~calc.ret.isUbaOutflow

\* C27: no record, whatever fields it carries, is both an inflow and an
\* outflow, and folding it moves the balance by +amount (inflow), -amount
\* (outflow) or 0 (neither).
C27_InflowAndOutflowExclusive ==
    AnsweredOp("classify") =>
        LET flow == calc.args[1]
        IN /\ ~(calc.ret.isUbaInflow /\ calc.ret.isUbaOutflow)
           /\ calc.ret.folded \in {flow.amount, 0 - flow.amount, 0}
           /\ calc.ret.isUbaInflow <=> calc.ret.folded = flow.amount
           /\ calc.ret.isUbaOutflow <=> calc.ret.folded = 0 - flow.amount

\* A record with all three fields counts once, as an inflow.
C27_Witness ==
    /\ AnsweredOp("classify")
    /\ calc.args[1].quoteTimestamp # None
    /\ calc.args[1].isSlowRelay # None
    /\ calc.args[1].fillBlock # None
    /\ calc.ret.isUbaInflow
    /\ ~calc.ret.isUbaOutflow
    /\ calc.ret.folded = calc.args[1].amount

\* The balance of a spoke over its first n records.
BalanceOverFirst(spoke, n) ==
    reduceFlows(SubSeq(spoke.recentRequestFlow, 1, Min(n, Len(spoke.recentRequestFlow))),
                IF spoke.lastValidatedRunningBalance = None THEN 0
                ELSE spoke.lastValidatedRunningBalance[1])

\* C28: getHistoricalUBAFees(side) returns one result per record of that
\* side's recentRequestFlow, in list order; the result for the record at
\* index i (from 0) is getUBAFee(amount of that record, {startIndex: 0,
\* endIndex: i}), the fee on the balances over the first i records of each
\* list.
C28_HistoricalFeesReplayPrefixes ==
    AnsweredOp("getHistoricalUBAFees") =>
        LET list == (IF calc.args[1] = "refund" THEN calc.refundSpoke
                     ELSE calc.originSpoke).recentRequestFlow
            originChain == calc.originSpoke.chainId
            refundChain == calc.refundSpoke.chainId
        IN /\ Len(calc.ret) = Len(list)
           /\ \A k \in 1..Len(list) :
                /\ calc.ret[k]
                    = getUBAFee(calc, list[k].amount,
                                Some([startIndex |-> 0, endIndex |-> k - 1])).value
                /\ calc.ret[k].depositorFee
                    = calc.config.baselineFee[<<originChain, refundChain>>]
                      + getDepositBalancingFee(calc.config.balancingFee[originChain],
                            BalanceOverFirst(calc.originSpoke, k - 1), list[k].amount)
                /\ calc.ret[k].refundFee
                    = calc.config.utilizationFee
                      + getRefundBalancingFee(calc.config.balancingFee[refundChain],
                            BalanceOverFirst(calc.refundSpoke, k - 1), list[k].amount)

\* The fees of the two records of the refund side, the second on balances
\* that the first records of both lists have moved.
C28_Witness ==
    /\ AnsweredOp("getHistoricalUBAFees")
    /\ calc.args = <<"refund">>
    /\ Len(calc.refundSpoke.recentRequestFlow) = 2
    /\ Len(calc.originSpoke.recentRequestFlow) = 1
    /\ Len(calc.ret) = 2
    /\ BalanceOverFirst(calc.originSpoke, 1) # BalanceOverFirst(calc.originSpoke, 0)
    /\ BalanceOverFirst(calc.refundSpoke, 1) # BalanceOverFirst(calc.refundSpoke, 0)
    /\ calc.ret[2] # getUBAFee(calc, calc.refundSpoke.recentRequestFlow[2].amount,
                               Some([startIndex |-> 0, endIndex |-> 0])).value

\* The calculator as constructed on the spokes and config of c.
AsConstructed(c) ==
    [NewCalculator(c.originSpoke, c.refundSpoke) EXCEPT !.config = c.config]

\* A step leaves the two spokes and the config as they are, and a call it
\* answers returns what it returns on the calculator as constructed.
FeeStepIsPure ==
    (calc.pc # "none" /\ calc'.pc # "none") =>
        /\ calc'.originSpoke = calc.originSpoke
        /\ calc'.refundSpoke = calc.refundSpoke
        /\ calc'.config = calc.config
        /\ (calc'.pc = "answered" /\ calc'.op = "getUBAFee") =>
              calc'.ret = getUBAFee(AsConstructed(calc), calc'.args[1], calc'.args[2]).value
        /\ (calc'.pc = "answered" /\ calc'.op = "getHistoricalUBAFees") =>
              calc'.ret = getHistoricalUBAFees(AsConstructed(calc), calc'.args[1]).value

\* C29: getUBAFee and getHistoricalUBAFees leave chainId, recentRequestFlow
\* and lastValidatedRunningBalance of both spokes unchanged, so that a fee
\* computation returns the same result after any other computations on the
\* same calculator.
C29_FeeCallsLeaveSpokesUnchanged ==
    [][FeeStepIsPure]_vars

\* A fee asked over a range that covers records of both lists, with both
\* lists as they were.
C29_Witness ==
    /\ AnsweredOp("getUBAFee")
    /\ calc.args[2] = Some([startIndex |-> 1, endIndex |-> 2])
    /\ Len(calc.originSpoke.recentRequestFlow) = 2
    /\ Len(calc.refundSpoke.recentRequestFlow) = 1
    /\ calc.ret = getUBAFee(AsConstructed(calc), calc.args[1], calc.args[2]).value

\* ------------------------------------------------------------ the cache
\* A field of a cached object: a string, or a BigNumber given by its
\* decimal digits.
String(text) == [kind |-> "string", text |-> text]
BigNumber(digits) == [kind |-> "BigNumber", text |-> digits]

\* The values set: {test: "value"}, the same with a BigNumber, and an
\* object with another field.
CacheValues ==
    {[test |-> String("value")],
     [test |-> String("value"), bigNumber |-> BigNumber("1000000000000000000")],
     [invalid |-> String("value")]}

\* The struct validators passed to get: none, object(), object({test:
\* string()}), object({invalid: string()}), and an object of a string and
\* a BigNumber.
Validators ==
    {None, Some([any |-> TRUE]),
     Some([any |-> FALSE, fields |-> [test |-> "string"]]),
     Some([any |-> FALSE, fields |-> [invalid |-> "string"]]),
     Some([any |-> FALSE, fields |-> [test |-> "string", bigNumber |-> "BigNumber"]])}

\* A value passes a struct: object() takes every object, object({...})
\* the objects of exactly its fields, each of its kind.
validate(struct, value) ==
    \/ struct.any
    \/ /\ DOMAIN struct.fields = DOMAIN value
       /\ \A f \in DOMAIN value : value[f].kind = struct.fields[f]

\* What is stored for a value, were it stored as it is.
Serialize_AsIs(value) == value

\* What is stored for a value and parsed back from the store: its JSON
\* form, in which a BigNumber is the string of its digits.
Serialize(value) ==
    [f \in DOMAIN value |->
        IF value[f].kind = "BigNumber" THEN String(value[f].text) ELSE value[f]]

\* The keys asked for: an identifier no write was given, and the
\* identifiers of the writes.
CacheKeys == 0..MaxWrites

\* A client on an empty store, answering no call.
NewCache == [pc |-> "idle", store |-> <<>>, op |-> "none", args |-> <<>>, ret |-> <<>>]

\* set, when the store takes the write: the record is posted under a new
\* identifier, not yet mined, and the identifier is returned.
setPosted(k, value) ==
    [k EXCEPT !.pc = "answered", !.op = "set", !.args = <<value>>,
              !.store = Append(@, [value |-> value, payload |-> Serialize(value),
                                   mined |-> FALSE]),
              !.ret = Some(Len(k.store) + 1)]

\* set, when the store does not take the write: undefined is returned.
setFailed(k, value) ==
    [k EXCEPT !.pc = "answered", !.op = "set", !.args = <<value>>, !.ret = None]

\* get that hands out the record whatever the struct validator says.
get_NoValidation(k, key, structValidator) ==
    IF key \notin 1..Len(k.store) \/ ~k.store[key].mined
    THEN None
    ELSE Some(k.store[key].payload)

\* get: null for an identifier the network does not hold, null for a
\* record that fails the struct validator, the record otherwise.
get(k, key, structValidator) ==
    IF key \notin 1..Len(k.store) \/ ~k.store[key].mined
    THEN None
    ELSE IF structValidator # None /\ ~validate(structValidator[1], k.store[key].payload)
         THEN None
         ELSE Some(k.store[key].payload)

cacheFrame == <<hubVars, search, calc>>

CacheSet ==
    /\ cache.pc = "idle"
    /\ Len(cache.store) < MaxWrites
    /\ \E value \in CacheValues :
           cache' \in {setPosted(cache, value), setFailed(cache, value)}
    /\ UNCHANGED cacheFrame

\* The network mines a block: the writes posted become visible.
CacheMineBlock ==
    /\ cache.pc = "idle"
    /\ \E i \in 1..Len(cache.store) : ~cache.store[i].mined
    /\ cache' = [cache EXCEPT !.store = [i \in 1..Len(cache.store) |->
                                            [cache.store[i] EXCEPT !.mined = TRUE]]]
    /\ UNCHANGED cacheFrame

\* A get that drops from the store the record it finds ill-shaped.
CacheGet_Evicts ==
    /\ cache.pc = "idle"
    /\ \E key \in CacheKeys, structValidator \in Validators :
           LET ret == get(cache, key, structValidator)
               held == key \in 1..Len(cache.store) /\ cache.store[key].mined
           IN cache' = [cache EXCEPT !.pc = "answered", !.op = "get",
                                     !.args = <<key, structValidator>>,
                                     !.ret = ret,
                                     !.store = IF held /\ ret = None
                                               THEN SubSeq(@, 1, key - 1)
                                                    \o SubSeq(@, key + 1, Len(@))
                                               ELSE @]
    /\ UNCHANGED cacheFrame

CacheGet ==
    /\ cache.pc = "idle"
    /\ \E key \in CacheKeys, structValidator \in Validators :
           cache' = [cache EXCEPT !.pc = "answered", !.op = "get",
                                  !.args = <<key, structValidator>>,
                                  !.ret = get(cache, key, structValidator)]
    /\ UNCHANGED cacheFrame

CacheReturn ==
    /\ cache.pc = "answered"
    /\ cache' = [cache EXCEPT !.pc = "idle", !.op = "none", !.args = <<>>, !.ret = <<>>]
    /\ UNCHANGED cacheFrame

InitCache ==
    /\ head = 0
    /\ log = <<>>
    /\ InitClient(DefaultConfig)
    /\ search = NoSearch
    /\ calc = NoCalculator
    /\ cache = NewCache

NextCache ==
    \/ CacheSet
    \/ CacheMineBlock
    \/ CacheGet
    \/ CacheReturn

SpecCache == InitCache /\ [][NextCache]_vars

\* get has answered for the identifier of a write that is visible.
GotVisibleWrite ==
    /\ cache.pc = "answered"
    /\ cache.op = "get"
    /\ cache.args[1] \in 1..Len(cache.store)
    /\ cache.store[cache.args[1]].mined

GetDegradesToNull ==
    (cache.pc = "idle" /\ cache'.pc = "answered" /\ cache'.op = "get") =>
        LET key == cache'.args[1]
            schema == cache'.args[2]
        IN /\ key \notin 1..Len(cache.store) => cache'.ret = None
           /\ (/\ key \in 1..Len(cache.store)
               /\ cache.store[key].mined
               /\ schema # None
               /\ ~validate(schema[1], cache.store[key].payload)) => cache'.ret = None
           /\ cache'.ret = None \/ Len(cache'.ret) = 1
           /\ cache'.store = cache.store

\* C31: get never fails on absent or ill-shaped data: it returns null for
\* an identifier that was never written, and null, not an error, for a
\* stored value that does not satisfy the schema, and it leaves the stored
\* value in place.
C31_GetReturnsNullOnMissOrBadShape ==
    [][GetDegradesToNull]_vars

\* {test: "value"} is visible, was asked for under object({invalid:
\* string()}), and null came back with the record still stored.
C31_Witness ==
    /\ GotVisibleWrite
    /\ cache.store[cache.args[1]].payload = [test |-> String("value")]
    /\ cache.args[2] = Some([any |-> FALSE, fields |-> [invalid |-> "string"]])
    /\ cache.ret = None

\* ------------------------- getRootBundleEvalBlockNumberContainingBlock
\* The loop over proposedRootBundles from place i (counted from 1) down to
\* the oldest bundle, with the endingBlockNumber set so far.
RECURSIVE searchEvalBlock(_, _, _, _, _, _)
searchEvalBlock(i, endingBlockNumber, latestMainnetBlock, block, chain, chainIdList) ==
    IF i = 0 THEN Ok(endingBlockNumber)
    ELSE LET rootBundle == proposedRootBundles[i]
             nextRootBundle == getFollowingRootBundle(rootBundle)
             bundleEvalBlockNumber ==
                 getBundleEndBlockForChain(rootBundle, chain, chainIdList)
         IN IF ~isRootBundleValid(rootBundle,
                                  IF nextRootBundle # None
                                  THEN nextRootBundle[1].blockNumber
                                  ELSE latestMainnetBlock)
            THEN searchEvalBlock(i - 1, endingBlockNumber, latestMainnetBlock,
                                 block, chain, chainIdList)
            ELSE IF bundleEvalBlockNumber.tag = "error" THEN bundleEvalBlockNumber
            ELSE IF bundleEvalBlockNumber.val <= block
                 THEN Ok(IF bundleEvalBlockNumber.val = block
                         THEN Some(bundleEvalBlockNumber.val)
                         ELSE endingBlockNumber)
                 ELSE searchEvalBlock(i - 1, Some(bundleEvalBlockNumber.val),
                                      latestMainnetBlock, block, chain, chainIdList)

getRootBundleEvalBlockNumberContainingBlock(latestMainnetBlock, block, chain, chainIdList) ==
    searchEvalBlock(Len(proposedRootBundles), None, latestMainnetBlock, block,
                    chain, chainIdList)

\* The blocks a caller asks about: blocks up to the largest evaluation
\* block a proposal names below 2^53, and one above.
EvalBlocks == 0..3

CallGetRootBundleEvalBlockNumberContainingBlock ==
    \E latestMainnetBlock \in Blocks, block \in EvalBlocks,
       chain \in Chains \cup {3} :
        Answer("getRootBundleEvalBlockNumberContainingBlock",
               <<latestMainnetBlock, block, chain, <<1, 2>>>>,
               getRootBundleEvalBlockNumberContainingBlock(
                   latestMainnetBlock, block, chain, <<1, 2>>))

NextEvalBlocks ==
    \/ MineEndBlocks
    \/ UpdateStart
    \/ UpdateQueried
    \/ UpdateTokenInfo
    \/ CallGetRootBundleEvalBlockNumberContainingBlock
    \/ Return

SpecEvalBlocks == Init /\ [][NextEvalBlocks]_vars

\* The end block of a bundle for a chain is at or after block: a block
\* number of 2^53 or more is after every block asked about.
EndBlockAtOrAfter(bundle, chain, chainIdList, block) ==
    LET index == IndexOf(chainIdList, chain)
        numbers == bundle.bundleEvaluationBlockNumbers
    IN IF index = -1 \/ index >= Len(numbers) THEN 0 >= block
       ELSE numbers[index + 1].over53 \/ numbers[index + 1].low >= block

\* The end block of a bundle for a chain where it is below 2^53, and a
\* number above every such block where it is not.
EndBlockOf(bundle, chain, chainIdList) ==
    LET index == IndexOf(chainIdList, chain)
        numbers == bundle.bundleEvaluationBlockNumbers
    IN IF index = -1 \/ index >= Len(numbers) THEN 0
       ELSE IF numbers[index + 1].over53 THEN MaxBlock + 2 + numbers[index + 1].low
            ELSE numbers[index + 1].low

\* C32: getRootBundleEvalBlockNumberContainingBlock(latest, block, chain,
\* chainIdList) returns the smallest end block for chain that is >= block
\* among the end blocks of the valid proposed bundles, and undefined when
\* no valid bundle has an end block >= block for the chain.
C32_SmallestEndBlockAtOrAfterBlock ==
    call.op = "getRootBundleEvalBlockNumberContainingBlock" =>
        LET latestMainnetBlock == call.args[1]
            block == call.args[2]
            chain == call.args[3]
            chainIdList == call.args[4]
            candidates ==
                {EndBlockOf(bundle, chain, chainIdList) :
                    bundle \in {b \in Range(proposedRootBundles) :
                                   /\ isRootBundleValid(b, latestMainnetBlock)
                                   /\ EndBlockAtOrAfter(b, chain, chainIdList, block)}}
        IN /\ call.ret.tag = "ok"
           /\ IF candidates = {} THEN call.ret.val = None
              ELSE /\ call.ret.val # None
                   /\ call.ret.val[1] \in candidates
                   /\ \A e \in candidates : call.ret.val[1] <= e

\* ------------------------------------------------- update() that fails
\* The update in flight has made its event queries and its token-info
\* reads end in the "Unsupported HubPool token" error.
FailsUnsupportedToken ==
    /\ pc = "tokenInfo"
    /\ LET enabled == SelectSeq(fetched.events,
                                LAMBDA e : e.kind = "L1TokenEnabledForLiquidityProvision")
           uniqueL1Tokens == Unique(Map(enabled, LAMBDA e : e.args.l1Token))
       IN pushTokenInfo(l1Tokens, Map(uniqueL1Tokens, fetchTokenInfoFromContract)).thrown

\* The ledger state that the statement lists.
LedgerState ==
    <<crossChainContracts, l1TokensToDestinationTokens,
      l1TokensToDestinationTokensWithBlock, l1Tokens, proposedRootBundles,
      canceledRootBundles, disputedRootBundles, executedRootBundles,
      pendingRootBundle, firstBlockToSearch, isUpdated>>

\* C33: when update() fails with the unsupported-token error, the ledger
\* state (cross-chain bindings, route mappings, l1Tokens, bundle lists,
\* pendingRootBundle, firstBlockToSearch, isUpdated) is what it was before
\* the call: no step of the failing update, from its event queries to its
\* throw, changes it.
C33_FailedUpdateLeavesLedgerUnchanged ==
    [][(FailsUnsupportedToken' \/ FailsUnsupportedToken) =>
           LedgerState' = LedgerState]_vars

\* ------------------------- getBlockRangeForDepositId, the strict bracket
\* The arguments pass the sanity checks and the target is at or above the
\* count at initLow and below the count at initHigh.
StrictBracket ==
    /\ ValidArguments
    /\ search.counter[search.initLow] <= search.targetDepositId
    /\ search.targetDepositId < search.counter[search.initHigh]

\* The blocks of (initLow, initHigh] in which the count passes the target.
CrossingBlocks ==
    {b \in (search.initLow + 1)..search.initHigh :
        /\ search.counter[b - 1] <= search.targetDepositId
        /\ search.targetDepositId < search.counter[b]}

\* C34: for a count that never falls with counter(initLow) <= target <
\* counter(initHigh) and maxSearches >= initHigh - initLow + 1, the call
\* returns a collapsed range l = h, and l is the one block b of
\* (initLow, initHigh] with counter(b - 1) <= target < counter(b).
C34_CollapsesOnTheCrossingBlock ==
    (/\ search.pc = "done"
     /\ StrictBracket
     /\ search.maxSearches >= search.initHigh - search.initLow + 1) =>
        /\ search.ret.tag = "ok"
        /\ search.ret.val.low = search.ret.val.high
        /\ CrossingBlocks = {search.ret.val.low}

\* A search over the five blocks 0..4 with five passes allowed has
\* returned block 1, where the count passes the target, after two passes.
C34_Witness ==
    /\ search.pc = "done"
    /\ StrictBracket
    /\ search.initLow = 0
    /\ search.initHigh = MaxSearchBlock
    /\ search.maxSearches = search.initHigh - search.initLow + 1
    /\ search.ret = Ok([low |-> 1, high |-> 1])
    /\ search.counter[0] <= search.targetDepositId
    /\ search.targetDepositId < search.counter[1]
    /\ search.searches = 2

\* What holds of low and high after a pass of the loop.
BracketKept ==
    /\ search.initLow <= search.low
    /\ search.low <= search.high
    /\ search.high <= search.initHigh
    /\ search.counter[search.high] > search.targetDepositId
    /\ \/ search.low = search.initLow
       \/ search.counter[search.low - 1] <= search.targetDepositId

\* A pass of the loop that starts with low < high narrows the range.
PassNarrows ==
    (search.pc = "loop" /\ StrictBracket /\ search.low < search.high) =>
        search.high' - search.low' < search.high - search.low

\* C35: under counter(initLow) <= target < counter(initHigh), after every
\* pass of the loop initLow <= low <= high <= initHigh, counter(high) >
\* target, and low = initLow or counter(low - 1) <= target; and every pass
\* made while low < high strictly decreases high - low.
C35_LoopKeepsBracketAndNarrows ==
    /\ []((search.pc \in {"loop", "done"} /\ StrictBracket) => BracketKept)
    /\ [][PassNarrows]_vars

\* Two passes have been made: the first moved high down, the second moved
\* low up, and the range is still inside the initial one.
C35_Witness ==
    /\ search.pc = "done"
    /\ StrictBracket
    /\ search.searches = 2
    /\ search.low > search.initLow
    /\ search.high < search.initHigh
    /\ search.ret.tag = "ok"

\* ------------------------------------------ leaves counted for a bundle
\* No leaf is counted for two bundles of different blocks at the horizon.
CountedLeavesDisjoint(latestMainnetBlock) ==
    \A b1, b2 \in Range(proposedRootBundles) :
        b1.blockNumber # b2.blockNumber =>
            Range(executedLeafCount(b1, latestMainnetBlock))
                \cap Range(executedLeafCount(b2, latestMainnetBlock)) = {}

\* A leaf executed in the block of a proposal is not counted for a bundle
\* proposed in that block; it is counted for the bundle that the proposal
\* follows, when the horizon reaches the block.
SameBlockLeafGoesToPreceding(latestMainnetBlock) ==
    \A leaf \in Range(executedRootBundles), b \in Range(proposedRootBundles) :
        leaf.blockNumber = b.blockNumber =>
            /\ leaf \notin Range(executedLeafCount(b, latestMainnetBlock))
            /\ \A preceding \in Range(proposedRootBundles) :
                   (/\ getFollowingRootBundle(preceding) # None
                    /\ getFollowingRootBundle(preceding)[1].blockNumber = b.blockNumber
                    /\ leaf.blockNumber <= latestMainnetBlock) =>
                       leaf \in Range(executedLeafCount(preceding, latestMainnetBlock))

\* C36: for a fixed horizon and any two proposed bundles with different
\* block numbers, the leaf sets that isRootBundleValid counts for the two
\* are disjoint, and a leaf executed in the same block as a proposal is
\* attributed to the preceding bundle, never to the bundle proposed in
\* that block.
C36_CountedLeavesDisjoint ==
    \A latestMainnetBlock \in Blocks :
        /\ CountedLeavesDisjoint(latestMainnetBlock)
        /\ SameBlockLeafGoesToPreceding(latestMainnetBlock)

\* isRootBundleValid has found a bundle valid by a leaf that was executed
\* in the block of the next proposal, and that proposal has a leaf of its
\* own in a later block.
C36_Witness ==
    /\ call.op = "isRootBundleValid"
    /\ call.ret = Ok(TRUE)
    /\ call.args[1] \in Range(proposedRootBundles)
    /\ getFollowingRootBundle(call.args[1]) # None
    /\ LET b == getFollowingRootBundle(call.args[1])[1]
       IN /\ \E leaf \in Range(executedLeafCount(call.args[1], call.args[2])) :
                 leaf.blockNumber = b.blockNumber
          /\ executedLeafCount(b, call.args[2]) # <<>>

\* ------------------------------------------ a client with a config
\* eventSearchConfig with and without a toBlock, and HubPoolClientConfig
\* with and without ignored blocks.
Configs ==
    {[fromBlock |-> 0, toBlock |-> toBlock,
      ignoredHubExecutedBundles |-> ignoredExecuted,
      ignoredHubProposedBundles |-> ignoredProposed] :
        toBlock \in {None, Some(2)},
        ignoredExecuted \in {{}, {2}},
        ignoredProposed \in {{}, {1}, {3}}}

InitConfigured ==
    /\ head = 0
    /\ log = <<>>
    /\ \E cfg \in Configs : InitClient(cfg)
    /\ search = NoSearch
    /\ calc = NoCalculator
    /\ cache = NoCache

\* The chain emits proposals and executed leaves.
ConfiguredEvents ==
    {ProposeRootBundle(1, <<BN(1)>>), ProposeRootBundle(1, <<BN(2)>>),
     RootBundleExecuted(1, <<Checksum(1)>>, <<BN(0)>>)}

MineConfigured ==
    \E evs \in SeqsUpTo(ConfiguredEvents, MaxLeavesPerBlock) :
        Len(log) + Len(evs) <= MaxLedgerEvents /\ Mine(evs)

NextConfigured ==
    \/ MineConfigured
    \/ UpdateStart
    \/ UpdateQueried
    \/ UpdateTokenInfo
    \/ CallHasPendingProposal
    \/ CallGetProposedRootBundles
    \/ Return

SpecConfigured == InitConfigured /\ [][NextConfigured]_vars

\* ------------------------------------------ update() on an empty window
\* A step of the client, not of the chain and not of a query, taken with
\* no update in flight and firstBlockToSearch past searchConfig.toBlock:
\* an update() called on an empty search window.
EmptyWindowUpdate ==
    /\ pc = "idle"
    /\ call = NoCall
    /\ call' = NoCall
    /\ UNCHANGED chainVars
    /\ firstBlockToSearch > SearchToBlock(head)

\* C37: update() called with an empty search window (firstBlockToSearch >
\* toBlock) returns at once and changes nothing but latestBlockNumber.
C37_EmptyWindowChangesOnlyLatestBlock ==
    [][EmptyWindowUpdate =>
           /\ pc' = "idle"
           /\ UNCHANGED <<config, l1TokensToDestinationTokens,
                          l1TokensToDestinationTokensWithBlock, l1Tokens, lpTokens,
                          proposedRootBundles, canceledRootBundles,
                          disputedRootBundles, executedRootBundles,
                          crossChainContracts, pendingRootBundle, isUpdated,
                          firstBlockToSearch, fetched>>]_vars

\* With eventSearchConfig.toBlock = 2 an update has stored a proposal and
\* its pending bundle, the leaf of the proposal was executed in a later
\* block, and an update called at that block has returned on its empty
\* window: latestBlockNumber is the new head and the pending bundle is
\* still the one of the first update.
C37_Witness ==
    /\ pc = "idle"
    /\ config.toBlock = Some(2)
    /\ firstBlockToSearch = 3
    /\ head >= 3
    /\ latestBlockNumber = Some(head)
    /\ pendingRootBundle # None
    /\ rootBundleProposal(log).unclaimedPoolRebalanceLeafCount = 0

\* ---------------------------------------------------------- l1Tokens
\* Every entry has decimals in (0, 18] and no two entries share a symbol.
L1TokensSupportedAndDistinct(tokens) ==
    /\ \A i \in 1..Len(tokens) : tokens[i].decimals > 0 /\ tokens[i].decimals <= 18
    /\ \A i, j \in 1..Len(tokens) : tokens[i].symbol = tokens[j].symbol => i = j

\* C38: after any sequence of update() calls, failing ones included, every
\* entry of l1Tokens has decimals in (0, 18] and no two entries share a
\* symbol, and an entry once added is never removed or replaced: every
\* step keeps the list it had as a prefix.
C38_L1TokensSupportedDistinctAppendOnly ==
    [][/\ L1TokensSupportedAndDistinct(l1Tokens')
       /\ IsPrefix(l1Tokens, l1Tokens')]_vars

\* WETH is in l1Tokens, and a later update has enabled a second token
\* that calls itself WETH: the list still holds the one entry.
C38_Witness ==
    /\ pc = "idle"
    /\ Len(l1Tokens) = 1
    /\ l1Tokens[1].address = Checksum(1)
    /\ Checksum(9) \in lpTokens
    /\ \E i, j \in 1..Len(log) :
           /\ log[i].kind = "L1TokenEnabledForLiquidityProvision"
           /\ log[j].kind = "L1TokenEnabledForLiquidityProvision"
           /\ log[i].args.l1Token = Checksum(1)
           /\ log[j].args.l1Token = Checksum(9)
           /\ log[i].blockNumber < log[j].blockNumber

\* ------------------------------------------------------ ignored blocks
\* No stored proposal and no stored leaf is of an ignored block.
IgnoredAbsent ==
    /\ \A i \in 1..Len(proposedRootBundles) :
           proposedRootBundles[i].blockNumber \notin config.ignoredHubProposedBundles
    /\ \A i \in 1..Len(executedRootBundles) :
           executedRootBundles[i].blockNumber \notin config.ignoredHubExecutedBundles

\* The events of the chain without the ignored proposals and leaves.
Unignored(events) ==
    SelectSeq(events,
              LAMBDA e :
                  /\ ~(/\ e.kind = "ProposeRootBundle"
                       /\ e.blockNumber \in config.ignoredHubProposedBundles)
                  /\ ~(/\ e.kind = "RootBundleExecuted"
                       /\ e.blockNumber \in config.ignoredHubExecutedBundles))

\* What an update reads for the pending bundle is what it would read on
\* the chain without the ignored events.
PendingReadIgnoresIgnored ==
    (pc = "querying" /\ pc' = "tokenInfo") =>
        fetched'.unclaimedPoolRebalanceLeafCount
            = rootBundleProposal(Unignored(log)).unclaimedPoolRebalanceLeafCount

\* C39: after any sequence of update() calls no proposed bundle of a block
\* in config.ignoredHubProposedBundles and no executed leaf of a block in
\* config.ignoredHubExecutedBundles is in the ledger, and such events do
\* not influence the pending bundle: the update reads for it what it
\* would read without them.
C39_IgnoredEventsWithoutInfluence ==
    /\ []IgnoredAbsent
    /\ [][PendingReadIgnoresIgnored]_vars
====
